---- MODULE Spec2Model ----
(***************************************************************************)
(* Model of the module-change-impact test selector                         *)
(* (scripts/test_changed_modules.py), of the Terraform workspace harness   *)
(* (tests/terraform/base.py, tests/terraform/base_validation.py,           *)
(* tests/terraform/config.py), of the module validator                     *)
(* (scripts/validate.py) and of the health checker                         *)
(* (scripts/health_check.py).                                              *)
(*                                                                         *)
(* Strings are sequences of one-character strings, so that str.startswith, *)
(* str.strip, str.split, str.replace and pathlib's segment-wise            *)
(* comparison are computed character by character, as Python does.         *)
(* A pathlib.Path is the sequence of its parts (each part a string).       *)
(***************************************************************************)
EXTENDS Naturals, Integers, Sequences, FiniteSets, TLC

VARIABLES
    \* ---- scripts/test_changed_modules.py: one run of main() ----
    pc,            \* position of main(): "start", "changed", "modules", "done"
    arg_all,       \* args.all
    arg_test_type, \* args.test_type
    git_out,       \* outcome of the four git queries of get_changed_files
    changed_files, \* the set returned by get_changed_files
    fs_main_tf,    \* directories (Paths) that hold a main.tf when the tree is scanned
    fs_tests,      \* test files (Paths) that exist when run_tests_for_modules looks
    modules,       \* the module set handed to run_tests_for_modules
    test_files,    \* test_files of run_tests_for_modules
    missing_tests, \* missing_tests of run_tests_for_modules
    pytest_rc,     \* <<>>: pytest not invoked; else <<the code run_command returned>>
    exit_code,     \* <<>> until main returns; then <<its return value>>
    raised,        \* the exception that escaped the run, "none" if none did
    \* ---- tests/terraform/base.py, base_validation.py: one workspace instance ----
    ws_cls,        \* "base": TerraformTestBase, "validation": TerraformValidationTest
    ws_live,       \* the constructor has returned
    tf_installed,  \* a terraform binary is on the search path
    module_exists, \* module_path exists
    self,          \* the instance: [test_dir, terraform], 0 standing for None
    tmp,           \* the directories, [exists, files] each: the module directory,
                   \* then the temporary directories made so far
    scope,         \* "unscoped", "inside" a with-block, or "left"
    last_op,       \* the most recent call on the instance
    last_result,   \* "returned" or the exception it raised
    last_rc,       \* <<the return code it returned>>, or <<>>
    last_tools,    \* the external tool runs of that call, in order
    last_msg,      \* the message of the exception it raised, or <<>>
    last_waited,   \* <<how long the call waited for the tool>>, or <<>>
    exited,        \* how that call left the with-block: "no", "normal", "exception"
    exit_dir,      \* self.test_dir when __exit__ was entered
    streak,        \* how many cleanup calls in a row have just been made (at most 2)
    ever_setup,    \* setup_test_workspace has been called
    plan_json,     \* <<the document terraform_plan_json last returned>>, or <<>>
    analyzer,      \* <<the plan_json a TerraformPlanAnalyzer holds>>, or <<>>
    \* one TerraformPlanAnalyzer and the queries made on it
    an_doc0,       \* the document passed to the constructor
    an_doc,        \* self.plan_json
    an_query,      \* the last query: [op, type, expected]
    an_result,     \* what it returned
    an_before,     \* <<what the same query returned just before>>, or <<>>
    \* several workspace instances in one temporary-file area
    sh_insts,      \* the instances: [cls, me] each, me as self above
    sh_tmp,        \* the directories they share, laid out as tmp above
    sh_actor,      \* the most recent call: [who, op, result]
    \* one call of a helper or one run of a script
    sc_prog,       \* which one is called
    sc_in,         \* its input: arguments, environment and file system
    sc_out         \* <<>> until it has returned; then <<what it returned>>

selVars == <<pc, arg_all, arg_test_type, git_out, changed_files, fs_main_tf,
             fs_tests, modules, test_files, missing_tests, pytest_rc, exit_code, raised>>

wsVars == <<ws_cls, ws_live, tf_installed, module_exists, self, tmp, scope,
            last_op, last_result, last_rc, last_tools, last_msg, last_waited, exited,
            exit_dir, streak, ever_setup, plan_json, analyzer>>

anVars == <<an_doc0, an_doc, an_query, an_result, an_before>>

shVars == <<sh_insts, sh_tmp, sh_actor>>

scVars == <<sc_prog, sc_in, sc_out>>

vars == <<selVars, wsVars, anVars, shVars, scVars>>

----------------------------------------------------------------------------
(* Strings *)

s_terraform == <<"t","e","r","r","a","f","o","r","m">>
s_examples  == <<"e","x","a","m","p","l","e","s">>
s_main_tf   == <<"m","a","i","n",".","t","f">>
s_tests     == <<"t","e","s","t","s">>
s_modules   == <<"m","o","d","u","l","e","s">>
s_test_     == <<"t","e","s","t","_">>
s_validation_py == <<"_","v","a","l","i","d","a","t","i","o","n",".","p","y">>
s_terraform_py  == <<"_","t","e","r","r","a","f","o","r","m",".","p","y">>
SLASH == "/"
NL    == "\n"
Whitespace == {" ", NL, "\t", "\r"}

\* str.startswith
StartsWith(s, p) ==
    /\ Len(p) <= Len(s)
    /\ SubSeq(s, 1, Len(p)) = p

\* str.strip(): drop leading and trailing whitespace
RECURSIVE LStrip(_)
LStrip(s) ==
    IF s # <<>> /\ Head(s) \in Whitespace THEN LStrip(Tail(s)) ELSE s

RECURSIVE RStrip(_)
RStrip(s) ==
    IF s # <<>> /\ s[Len(s)] \in Whitespace
    THEN RStrip(SubSeq(s, 1, Len(s) - 1))
    ELSE s

Strip(s) == RStrip(LStrip(s))

\* str.split(sep) for a one-character separator: always at least one field
RECURSIVE SplitAcc(_, _, _)
SplitAcc(s, sep, cur) ==
    IF s = <<>> THEN <<cur>>
    ELSE IF Head(s) = sep THEN <<cur>> \o SplitAcc(Tail(s), sep, <<>>)
    ELSE SplitAcc(Tail(s), sep, Append(cur, Head(s)))

Split(s, sep) == SplitAcc(s, sep, <<>>)

\* sep.join(fields)
RECURSIVE Join(_, _)
Join(fields, sep) ==
    IF fields = <<>> THEN <<>>
    ELSE IF Len(fields) = 1 THEN fields[1]
    ELSE fields[1] \o <<sep>> \o Join(Tail(fields), sep)

\* str.replace(old, new) for one-character old and new
Replace(s, old, new) == [i \in 1..Len(s) |-> IF s[i] = old THEN new ELSE s[i]]

Range(f) == {f[i] : i \in DOMAIN f}

----------------------------------------------------------------------------
(* pathlib *)

\* Path(str).parts of a relative path: split on "/", empty and "." fields dropped
RECURSIVE DropEmpty(_)
DropEmpty(fields) ==
    IF fields = <<>> THEN <<>>
    ELSE IF Head(fields) = <<>> \/ Head(fields) = <<".">>
         THEN DropEmpty(Tail(fields))
         ELSE <<Head(fields)>> \o DropEmpty(Tail(fields))

Path(s) == DropEmpty(Split(s, SLASH))

\* str(path)
PathStr(p) == IF p = <<>> THEN <<".">> ELSE Join(p, SLASH)

\* path.name
PathName(p) == IF p = <<>> THEN <<>> ELSE p[Len(p)]

\* path.parent
PathParent(p) == IF p = <<>> THEN <<>> ELSE SubSeq(p, 1, Len(p) - 1)

\* path / name
PathJoin(p, name) == p \o Path(name)

\* str-level containment: what a startswith comparison of the two paths gives
RelativeToByString(p, other) == StartsWith(PathStr(p), PathStr(other))

\* p.relative_to(other) does not raise ValueError: other's parts lead p's parts
RelativeToOK(p, other) ==
    /\ Len(other) <= Len(p)
    /\ SubSeq(p, 1, Len(other)) = other

----------------------------------------------------------------------------
(* Bounds and the input universe *)

MaxGitLines == 2   \* most paths one git query prints
MaxMainTf   == 3   \* most directories holding a main.tf in a scanned tree

s_x   == <<"x">>
s_y   == <<"y">>
s_b   == <<"b">>
s_r_g  == <<"r","-","g">>
s_r_g2 == <<"r","-","g","2">>
s_r_ug == <<"r","_","g">>
s_examples2 == s_examples \o <<"2">>
s_t_py == <<"t",".","p","y">>

\* Directories that may hold a main.tf
DirCandidates ==
    { <<s_terraform, s_x, s_r_g>>,
      <<s_terraform, s_x, s_r_g2>>,
      <<s_terraform, s_y, s_r_g>>,
      <<s_terraform, s_x, s_r_ug>>,
      <<s_terraform, s_x, s_r_g, s_examples, s_b>>,
      <<s_terraform, s_examples2>>,
      <<s_terraform>>,
      <<s_tests, s_r_g>> }

Layouts == {L \in SUBSET DirCandidates : Cardinality(L) <= MaxMainTf}

\* Repository-relative paths git may print, in the order git prints them
GitPaths ==
    << PathStr(<<s_terraform, s_x, s_r_g>>),
       PathStr(<<s_terraform, s_x, s_r_g, s_examples, s_b, s_main_tf>>),
       PathStr(<<s_terraform, s_x, s_r_g, s_main_tf>>),
       PathStr(<<s_terraform, s_x, s_r_g2, s_main_tf>>),
       PathStr(<<s_tests, s_t_py>>) >>

\* The path lists one query may print: the paths of GitPaths at the chosen
\* positions, in ascending order
Selections == {S \in SUBSET (1..Len(GitPaths)) : Cardinality(S) <= MaxGitLines}

RECURSIVE PathList(_)
PathList(S) ==
    IF S = {} THEN <<>>
    ELSE LET i == CHOOSE k \in S : \A j \in S : k <= j
         IN  <<GitPaths[i]>> \o PathList(S \ {i})

\* What subprocess.run does for one command: exits 0 printing the selected
\* paths, exits non-zero printing nothing on stdout, or raises (command not
\* found, bad cwd)
ProcOutcomes ==
    [kind : {"ok"}, sel : Selections]
        \cup {[kind |-> "fail", sel |-> {}], [kind |-> "raise", sel |-> {}]}

\* The outcomes drawn for a whole run of main(): each query prints at most one
\* path, so up to four paths change
OneLineOutcomes == { o \in ProcOutcomes : Cardinality(o.sel) <= 1 }

\* The text git writes for a path list: one path per line
RECURSIVE GitStdout(_)
GitStdout(paths) ==
    IF paths = <<>> THEN <<>>
    ELSE Head(paths) \o <<NL>> \o GitStdout(Tail(paths))

\* subprocess.run's result for an outcome that did not raise
Completed(o) ==
    [returncode |-> IF o.kind = "ok" THEN 0 ELSE 128,
     stdout     |-> IF o.kind = "ok" THEN GitStdout(PathList(o.sel)) ELSE <<>>]

----------------------------------------------------------------------------
(* scripts/test_changed_modules.py *)

\* A variant without the try/except: the exception escapes
run_command_no_catch(o) ==
    IF o.kind = "raise"
    THEN [exc |-> "Exception", ret_code |-> 1, stdout |-> <<>>]
    ELSE [exc |-> "none", ret_code |-> Completed(o).returncode,
          stdout |-> Completed(o).stdout]

\* run_command: (return_code, stdout); an exception of subprocess.run becomes
\* return code 1.  exc is the exception that escapes the call.
run_command(o) ==
    IF o.kind = "raise"
    THEN [exc |-> "none", ret_code |-> 1, stdout |-> <<>>]
    ELSE [exc |-> "none", ret_code |-> Completed(o).returncode,
          stdout |-> Completed(o).stdout]

\* `if ret_code == 0 and stdout.strip(): set(stdout.strip().split("\n"))`
QueryPaths(r) ==
    IF r.ret_code = 0 /\ Strip(r.stdout) # <<>>
    THEN Range(Split(Strip(r.stdout), NL))
    ELSE {}

\* "terraform/"
TerraformPrefix == s_terraform \o <<SLASH>>

\* `{f for f in untracked_files if f.startswith("terraform/")}`
TerraformUntracked(untracked_files) ==
    { f \in untracked_files : StartsWith(f, TerraformPrefix) }

\* For every outcome o of one query, computed once: <<o, the exception escaping
\* run_command(o), QueryPaths(run_command(o)), the same paths filtered as the
\* untracked listing is>>
QueryTable ==
    { <<o, run_command(o).exc, QueryPaths(run_command(o)),
        TerraformUntracked(QueryPaths(run_command(o)))>> : o \in ProcOutcomes }

\* The exception that escapes the query whose outcome is o
ExcOf(o) == (CHOOSE e \in QueryTable : e[1] = o)[2]

\* The paths get_changed_files takes from a diff query whose outcome is o
PathsOf(o) == (CHOOSE e \in QueryTable : e[1] = o)[3]

\* The paths get_changed_files takes from the untracked listing whose outcome is o
UntrackedOf(o) == (CHOOSE e \in QueryTable : e[1] = o)[4]

\* A variant that gives up at the first failed query
get_changed_files_stop_at_failure(o) ==
    LET live(i) == \A j \in 1..i : o[j].kind = "ok"
    IN  [exc |-> "none",
         files |-> UNION { IF live(i) THEN PathsOf(o[i]) ELSE {} : i \in 1..3 }
                     \cup (IF live(4) THEN UntrackedOf(o[4]) ELSE {})]

\* get_changed_files: o[1] base...HEAD diff, o[2] diff against HEAD,
\* o[3] cached diff, o[4] untracked listing.  An exception escaping a query
\* ends the function there.
get_changed_files(o) ==
    IF \E i \in 1..4 : ExcOf(o[i]) # "none"
    THEN [exc |-> "Exception", files |-> {}]
    ELSE [exc |-> "none",
          files |-> PathsOf(o[1]) \cup PathsOf(o[2]) \cup PathsOf(o[3])
                      \cup UntrackedOf(o[4])]

\* A variant that tests for the substring "examples" in the path text
RECURSIVE Contains(_, _)
Contains(s, sub) ==
    IF Len(s) < Len(sub) THEN FALSE
    ELSE StartsWith(s, sub) \/ Contains(Tail(s), sub)

find_terraform_modules_substring(fs) ==
    { d \in fs : /\ RelativeToOK(d, <<s_terraform>>)
                 /\ ~Contains(PathStr(d), s_examples) }

\* find_terraform_modules: Path("terraform").rglob("main.tf") over the tree `fs`
\* (the directories holding a main.tf), example directories skipped.  The
\* sorted list is modelled by its set of elements.
find_terraform_modules(fs) ==
    { d \in fs : /\ RelativeToOK(d, <<s_terraform>>)
                 /\ s_examples \notin Range(d) }

\* changed_path.relative_to(module_path) raised no ValueError
IsWithin(changed_path, module_path) == RelativeToOK(changed_path, module_path)

\* A variant that passes over changed files lying in an examples directory
get_affected_modules_skip_examples(files, fs) ==
    { m \in find_terraform_modules(fs) :
        \E f \in files : /\ IsWithin(Path(f), m)
                         /\ s_examples \notin Range(Path(f)) }

\* get_affected_modules
get_affected_modules(files, fs) ==
    { m \in find_terraform_modules(fs) :
        \E f \in files : IsWithin(Path(f), m) }

\* A variant whose two kinds share one file name
get_module_test_file_one_name(module_path, test_type) ==
    <<s_tests, s_terraform, s_modules,
      s_test_ \o Replace(PathName(module_path), "-", "_") \o s_validation_py>>

\* get_module_test_file
get_module_test_file(module_path, test_type) ==
    LET module_name == Replace(PathName(module_path), "-", "_")
        test_file == IF test_type = "validation"
                     THEN s_test_ \o module_name \o s_validation_py
                     ELSE s_test_ \o module_name \o s_terraform_py
    IN  PathJoin(<<s_tests, s_terraform, s_modules>>, test_file)

\* What subprocess.run may do for the pytest command
PytestOutcomes == {"pass", "fail", "raise"}

PytestRetCode(p) == IF p = "pass" THEN 0 ELSE 1

\* A variant that fails the run when a test file is missing
run_tests_for_modules_strict(mods, test_type, existing, p) ==
    LET found == { get_module_test_file(m, test_type) : m \in mods } \cap existing
        missing == { <<m, get_module_test_file(m, test_type)>> :
                       m \in { n \in mods : get_module_test_file(n, test_type) \notin existing } }
    IN  [test_files |-> found, missing_tests |-> missing,
         ret_code |-> IF found = {} THEN <<>> ELSE <<PytestRetCode(p)>>,
         success |-> missing = {} /\ (found = {} \/ PytestRetCode(p) = 0)]

\* run_tests_for_modules: `existing` are the test files that exist, `p` is what
\* the pytest command does if it is run
run_tests_for_modules(mods, test_type, existing, p) ==
    IF mods = {}
    THEN [test_files |-> {}, missing_tests |-> {}, ret_code |-> <<>>, success |-> TRUE]
    ELSE
      LET found == { get_module_test_file(m, test_type) : m \in mods } \cap existing
          missing == { <<m, get_module_test_file(m, test_type)>> :
                         m \in { n \in mods : get_module_test_file(n, test_type) \notin existing } }
      IN  IF found = {}
          THEN [test_files |-> found, missing_tests |-> missing,
                ret_code |-> <<>>, success |-> TRUE]
          ELSE [test_files |-> found, missing_tests |-> missing,
                ret_code |-> <<PytestRetCode(p)>>, success |-> PytestRetCode(p) = 0]

----------------------------------------------------------------------------
(* One run of main() of scripts/test_changed_modules.py *)

TestTypes == {"validation", "plan"}

\* No workspace instance is in use
WsIdle ==
    /\ ws_cls = "base"
    /\ ws_live = FALSE
    /\ tf_installed = TRUE
    /\ module_exists = TRUE
    /\ self = [test_dir |-> 0, terraform |-> 0]
    /\ tmp = <<>>
    /\ scope = "unscoped"
    /\ last_op = "none"
    /\ last_result = "none"
    /\ last_rc = <<>>
    /\ last_tools = <<>>
    /\ last_msg = <<>>
    /\ last_waited = <<>>
    /\ exited = "no"
    /\ exit_dir = 0
    /\ streak = 0
    /\ ever_setup = FALSE
    /\ plan_json = <<>>
    /\ analyzer = <<>>

\* No analyzer has been made
AnIdle ==
    /\ an_doc0 = <<>>
    /\ an_doc = <<>>
    /\ an_query = <<>>
    /\ an_result = <<>>
    /\ an_before = <<>>

ShIdle ==
    /\ sh_insts = <<>>
    /\ sh_tmp = <<>>
    /\ sh_actor = <<>>

ScIdle ==
    /\ sc_prog = "none"
    /\ sc_in = <<>>
    /\ sc_out = <<>>

SelIdle ==
    /\ pc = "start"
    /\ git_out = <<>>
    /\ changed_files = {}
    /\ fs_main_tf = {}
    /\ fs_tests = {}
    /\ modules = {}
    /\ test_files = {}
    /\ missing_tests = {}
    /\ pytest_rc = <<>>
    /\ exit_code = <<>>
    /\ raised = "none"

\* args = parser.parse_args()
Init ==
    /\ SelIdle
    /\ ShIdle
    /\ ScIdle
    /\ WsIdle
    /\ AnIdle
    /\ arg_all \in BOOLEAN
    /\ arg_test_type \in TestTypes

\* main, `else` branch up to the first early return: get_changed_files
DetectChanges ==
    /\ pc = "start"
    /\ ~arg_all
    /\ \E o \in [1..4 -> OneLineOutcomes] :
         LET r == get_changed_files(o)
         IN  /\ changed_files' = r.files
             /\ raised' = r.exc
             /\ IF r.exc # "none"
                THEN pc' = "done" /\ exit_code' = exit_code
                ELSE IF r.files = {}
                THEN pc' = "done" /\ exit_code' = <<0>>
                ELSE pc' = "changed" /\ exit_code' = exit_code
    /\ UNCHANGED <<arg_all, arg_test_type, git_out, fs_main_tf, fs_tests,
                   modules, test_files, missing_tests, pytest_rc,
                   wsVars, anVars, shVars, scVars>>

\* main: modules = get_affected_modules(changed_files), with its early return
AffectedModules ==
    /\ pc = "changed"
    /\ \E fs \in Layouts :
         /\ fs_main_tf' = fs
         /\ modules' = get_affected_modules(changed_files, fs)
    /\ IF modules' = {}
       THEN pc' = "done" /\ exit_code' = <<0>>
       ELSE pc' = "modules" /\ exit_code' = exit_code
    /\ UNCHANGED <<arg_all, arg_test_type, git_out, changed_files, fs_tests,
                   test_files, missing_tests, pytest_rc, raised,
                   wsVars, anVars, shVars, scVars>>

\* main, --all: modules = set(find_terraform_modules())
DiscoverAll ==
    /\ pc = "start"
    /\ arg_all
    /\ \E fs \in Layouts :
         /\ fs_main_tf' = fs
         /\ modules' = find_terraform_modules(fs)
    /\ pc' = "modules"
    /\ UNCHANGED <<arg_all, arg_test_type, git_out, changed_files, fs_tests,
                   test_files, missing_tests, pytest_rc, exit_code, raised,
                   wsVars, anVars, shVars, scVars>>

\* The test files whose existence run_tests_for_modules asks about
TestFileCandidates == { get_module_test_file(m, arg_test_type) : m \in modules }

\* main: success = run_tests_for_modules(...); return 0 if success else 1
RunTests ==
    /\ pc = "modules"
    /\ \E existing \in SUBSET TestFileCandidates, p \in PytestOutcomes :
         \E r \in {run_tests_for_modules(modules, arg_test_type, existing, p)} :
             /\ fs_tests' = existing
             /\ test_files' = r.test_files
             /\ missing_tests' = r.missing_tests
             /\ pytest_rc' = r.ret_code
             /\ exit_code' = IF r.success THEN <<0>> ELSE <<1>>
    /\ pc' = "done"
    /\ UNCHANGED <<arg_all, arg_test_type, git_out, changed_files, fs_main_tf,
                   modules, raised,
                   wsVars, anVars, shVars, scVars>>

Next == DetectChanges \/ AffectedModules \/ DiscoverAll \/ RunTests

Spec == Init /\ [][Next]_vars

----------------------------------------------------------------------------
(* get_changed_files on its own, the four query outcomes kept *)

InitGit ==
    /\ SelIdle
    /\ ShIdle
    /\ ScIdle
    /\ WsIdle
    /\ AnIdle
    /\ arg_all = FALSE
    /\ arg_test_type = "validation"

GetChangedFiles ==
    /\ pc = "start"
    /\ \E o \in [1..4 -> ProcOutcomes] :
         LET r == get_changed_files(o)
         IN  /\ git_out' = o
             /\ changed_files' = r.files
             /\ raised' = r.exc
    /\ pc' = "changed"
    /\ UNCHANGED <<arg_all, arg_test_type, fs_main_tf, fs_tests, modules,
                   test_files, missing_tests, pytest_rc, exit_code,
                   wsVars, anVars, shVars, scVars>>

NextGit == GetChangedFiles

SpecGit == InitGit /\ [][NextGit]_vars

----------------------------------------------------------------------------
(* Claims about the test selector *)

\* The path text f names the directory m or something below it: f is m's text,
\* or m's text followed by "/" and more
AtOrBelow(f, m) ==
    \/ f = PathStr(m)
    \/ StartsWith(f, PathStr(m) \o <<SLASH>>)

\* The text of d has a whole segment "examples"
HasExamplesSegment(d) ==
    Contains(<<SLASH>> \o PathStr(d) \o <<SLASH>>,
             <<SLASH>> \o s_examples \o <<SLASH>>)

\* get_affected_modules has returned in this run
AffectedComputed == ~arg_all /\ changed_files # {} /\ pc \in {"modules", "done"}

\* C1: every discovered module M is in the affected set exactly when some
\* changed file is M itself or lies below M by whole path segments; a name
\* that merely extends M's name as text does not count.
C1_AffectedIffAtOrBelow ==
    AffectedComputed =>
        \A m \in find_terraform_modules(fs_main_tf) :
            (m \in modules) <=> (\E f \in changed_files : AtOrBelow(f, m))

\* C1 witness: r-g and r-g2 are both modules, the only change is under r-g2,
\* and r-g2 alone is affected.
C1_Witness ==
    /\ AffectedComputed
    /\ {<<s_terraform, s_x, s_r_g>>, <<s_terraform, s_x, s_r_g2>>} \subseteq fs_main_tf
    /\ changed_files = {PathStr(<<s_terraform, s_x, s_r_g2, s_main_tf>>)}
    /\ modules = {<<s_terraform, s_x, s_r_g2>>}

\* get_changed_files has returned in the stand-alone run
GitReturned == pc = "changed" /\ git_out # <<>>

\* C2: when all four git queries fail, by non-zero exit or by the subprocess
\* call raising, get_changed_files returns the empty set and raises nothing.
C2_AllFailEmpty ==
    (GitReturned /\ \A i \in 1..4 : git_out[i].kind # "ok") =>
        (changed_files = {} /\ raised = "none")

\* C2 witness: all four queries failed, some by exit code and some by raising.
C2_Witness ==
    /\ GitReturned
    /\ \A i \in 1..4 : git_out[i].kind # "ok"
    /\ \E i, j \in 1..4 : git_out[i].kind = "fail" /\ git_out[j].kind = "raise"
    /\ changed_files = {}

\* C3: get_changed_files returns exactly the union of the path lists of the
\* queries that succeeded, the untracked list restricted to paths beginning
\* with "terraform/"; a failed query removes nothing another one contributed.
C3_UnionOfSucceeded ==
    GitReturned =>
        /\ raised = "none"
        /\ changed_files =
             UNION { IF git_out[i].kind = "ok"
                     THEN Range(PathList(git_out[i].sel)) ELSE {} : i \in 1..3 }
             \cup { f \in (IF git_out[4].kind = "ok"
                           THEN Range(PathList(git_out[4].sel)) ELSE {}) :
                      SubSeq(f, 1, 10) = <<"t","e","r","r","a","f","o","r","m","/">> }

\* C3 witness: the first query failed, the second raised, the third printed two
\* paths and the untracked listing printed one path inside terraform/ and one
\* outside it.
C3_Witness ==
    /\ GitReturned
    /\ git_out[1].kind = "fail"
    /\ git_out[2].kind = "raise"
    /\ git_out[3].kind = "ok" /\ Cardinality(git_out[3].sel) = 2
    /\ git_out[4].kind = "ok" /\ Cardinality(git_out[4].sel) = 2
    /\ PathStr(<<s_tests, s_t_py>>) \in Range(PathList(git_out[4].sel))
    /\ PathStr(<<s_tests, s_t_py>>) \notin changed_files
    /\ Cardinality(changed_files) = 3

\* Module discovery has run in this run
Discovered == pc \in {"modules", "done"} /\ (arg_all \/ changed_files # {})

\* C4: find_terraform_modules never returns a directory with a segment named
\* "examples", and returns every other directory under terraform/ that holds
\* a main.tf.
C4_ExamplesExcluded ==
    /\ \A m \in modules : ~HasExamplesSegment(m)
    /\ (Discovered /\ arg_all) =>
          \A d \in fs_main_tf :
              (d \in modules) <=>
                  (StartsWith(PathStr(d) \o <<SLASH>>, TerraformPrefix)
                     /\ ~HasExamplesSegment(d))

\* C4 witness: the tree holds a main.tf in an examples directory and in a
\* directory named examples2; only the latter is returned.
C4_Witness ==
    /\ Discovered /\ arg_all
    /\ <<s_terraform, s_x, s_r_g, s_examples, s_b>> \in fs_main_tf
    /\ <<s_terraform, s_examples2>> \in fs_main_tf
    /\ <<s_terraform, s_examples2>> \in modules
    /\ <<s_terraform, s_x, s_r_g, s_examples, s_b>> \notin modules

\* run_tests_for_modules has looked for the test files of `modules`
TestsLooked == pc = "done" /\ modules # {}

\* C5: the test file is a function of (module, kind): a module has one test
\* file per run, the one get_module_test_file names, and the file for kind
\* "validation" differs from the file for the other kind.
C5_TestFileFunction ==
    /\ \A m \in modules :
          get_module_test_file(m, "validation") # get_module_test_file(m, "plan")
    /\ TestsLooked =>
          \A m \in modules :
              LET own == IF arg_test_type = "validation"
                         THEN get_module_test_file(m, "validation")
                         ELSE get_module_test_file(m, "plan")
                  other == IF arg_test_type = "validation"
                           THEN get_module_test_file(m, "plan")
                           ELSE get_module_test_file(m, "validation")
              IN  /\ (own \in test_files) # (<<m, own>> \in missing_tests)
                  /\ \A e \in missing_tests : e[1] = m => e[2] = own
                  /\ <<m, other>> \notin missing_tests

\* C5 witness: a run of kind "plan" found the test file of a hyphenated module
\* and missed another module's.
C5_Witness ==
    /\ TestsLooked
    /\ arg_test_type = "plan"
    /\ <<s_tests, s_terraform, s_modules, s_test_ \o s_r_ug \o s_terraform_py>> \in test_files
    /\ <<s_terraform, s_x, s_r_g>> \in modules
    /\ missing_tests # {}

\* C6: the run ends with exit code 0 when there are no changed files, no
\* affected modules or no existing test file; a missing test file alone never
\* fails the run; main returns non-zero only when pytest was invoked and
\* returned non-zero.
C6_SoftAbsenceExitsZero ==
    pc = "done" =>
        /\ raised = "none"
        /\ exit_code \in {<<0>>, <<1>>}
        /\ (~arg_all /\ changed_files = {}) => exit_code = <<0>>
        /\ modules = {} => exit_code = <<0>>
        /\ test_files = {} => (exit_code = <<0>> /\ pytest_rc = <<>>)
        /\ exit_code # <<0>> => (pytest_rc # <<>> /\ pytest_rc # <<0>>)
        /\ (missing_tests # {} /\ pytest_rc \in {<<>>, <<0>>}) => exit_code = <<0>>

\* C6 witness: one selected module has no test file, another's tests ran and
\* passed, and the run ended with exit code 0.
C6_Witness ==
    /\ pc = "done"
    /\ missing_tests # {}
    /\ test_files # {}
    /\ pytest_rc = <<0>>
    /\ exit_code = <<0>>

\* The path text f names something in the examples subtree of directory m
InExamplesOf(f, m) == StartsWith(f, PathStr(m) \o <<SLASH>> \o s_examples \o <<SLASH>>)

\* C28: a changed file inside the examples subtree of a discovered module
\* marks that module as affected, although no directory with an examples
\* segment is itself a module; when every changed file lies outside every
\* discovered module directory no module is affected and no test is selected
\* or run.
C28_ExamplesAffectEnclosingModule ==
    AffectedComputed =>
        /\ \A m \in find_terraform_modules(fs_main_tf) :
              (\E f \in changed_files : InExamplesOf(f, m)) => m \in modules
        /\ \A d \in fs_main_tf : HasExamplesSegment(d) => d \notin modules
        /\ \A m \in find_terraform_modules(fs_main_tf) :
              (\A f \in changed_files : ~AtOrBelow(f, m)) => m \notin modules
        /\ (\A f \in changed_files :
               \A m \in find_terraform_modules(fs_main_tf) : ~AtOrBelow(f, m)) =>
              /\ modules = {}
              /\ test_files = {}
              /\ missing_tests = {}
              /\ pytest_rc = <<>>
              /\ exit_code = <<0>>

\* C28 witness: the only change is the main.tf of an example of r-g; both r-g
\* and the example directory hold a main.tf, and r-g alone is affected.
C28_Witness ==
    /\ AffectedComputed
    /\ {<<s_terraform, s_x, s_r_g>>, <<s_terraform, s_x, s_r_g, s_examples, s_b>>}
          \subseteq fs_main_tf
    /\ changed_files = {PathStr(<<s_terraform, s_x, s_r_g, s_examples, s_b, s_main_tf>>)}
    /\ modules = {<<s_terraform, s_x, s_r_g>>}

\* C29 as stated: for either test kind, two distinct discovered module
\* directories never have the same test file.
C29_Original ==
    \A m1 \in find_terraform_modules(fs_main_tf), m2 \in find_terraform_modules(fs_main_tf) :
        m1 # m2 =>
            \A kind \in TestTypes :
                get_module_test_file(m1, kind) # get_module_test_file(m2, kind)

----------------------------------------------------------------------------
(* tests/terraform/base.py and tests/terraform/base_validation.py:           *)
(* the workspace classes.  An operation takes the instance `me`              *)
(* ([test_dir, terraform], 0 for None) and the temporary directories `dirs`, *)
(* and gives the instance and directories it leaves, what it returned or     *)
(* raised, and the external tool runs it made.                               *)

MaxDirs == 2   \* most temporary directories one instance makes

NoInstance == [test_dir |-> 0, terraform |-> 0]

\* Where self.module_path is among the directories
ModuleDir == 1

\* The files of the module under test
ModuleFiles == {"main.tf", "variables.tf"}

\* The module directory as the instance finds it
ModuleTree(exists) ==
    [exists |-> exists, files |-> IF exists THEN ModuleFiles ELSE {}]

\* What an external command may do: exit 0, exit non-zero, run past the
\* timeout, or fail to start
ToolOutcomes == {"zero", "nonzero", "timeout", "oserror"}

\* python_terraform's Terraform.cmd gives (ret_code, out, err) for either exit
ReturnCodes == {"zero", "nonzero"}

RcOf(outcome) == IF outcome = "zero" THEN <<0>> ELSE <<1>>

\* timeout=120 of subprocess.run in the validation path
TIMEOUT == 120

\* The running time of a process that does not end by itself
NeverEnds == -1

\* The wait `dur` ended, and within `limit`
Within(dur, limit) == dur # NeverEnds /\ dur <= limit

\* How long a started process may run
Durations == {1, TIMEOUT - 1, TIMEOUT + 1, NeverEnds}

\* A process either cannot be started, or runs for some time and, if it is
\* left to end, exits zero or non-zero
ProcessBehaviours ==
    [start : {"started"}, exit : ReturnCodes, dur : Durations]
        \cup {[start |-> "oserror", exit |-> "nonzero", dur |-> 1]}

IsException(result) == result \notin {"returned", "none"}

\* test_dir.exists()
DirExists(dirs, d) == d \in 1..Len(dirs) /\ dirs[d].exists

\* tempfile.mkdtemp: a directory that did not exist before
Mkdtemp(dirs) == Append(dirs, [exists |-> TRUE, files |-> {}])

\* A file written into directory d
WriteFiles(dirs, d, names) ==
    [dirs EXCEPT ![d] = [exists |-> TRUE, files |-> dirs[d].files \cup names]]

\* A variant that removes the whole temporary-file area, not one directory
Rmtree_whole_area(dirs, d) ==
    [k \in 1..Len(dirs) |->
        IF k = ModuleDir THEN dirs[k] ELSE [exists |-> FALSE, files |-> {}]]

\* shutil.rmtree(d)
Rmtree(dirs, d) == [dirs EXCEPT ![d] = [exists |-> FALSE, files |-> {}]]

\* One run of the external tool with working directory d, and how it ended
ToolRun(dirs, cmd, d, outcome) ==
    [cmd |-> cmd, dir |-> d, exit |-> outcome,
     dir_exists |-> DirExists(dirs, d),
     has_module |-> DirExists(dirs, d) /\ "module" \in dirs[d].files,
     has_main_tf |-> DirExists(dirs, d) /\ "main.tf" \in dirs[d].files]

\* How a call ended: the instance and the directories after it, "returned" or
\* the exception type, the return code and the document returned, the tool
\* runs made, the exception's message and the time spent waiting for the tool
Result(me, dirs, result, rc, tools, doc, msg, waited) ==
    [me |-> me, dirs |-> dirs, result |-> result, rc |-> rc, tools |-> tools,
     doc |-> doc, msg |-> msg, waited |-> waited]

Outcome(me, dirs, result, rc, tools, doc) ==
    Result(me, dirs, result, rc, tools, doc, <<>>, <<>>)

\* ---- TerraformTestBase ----

\* A variant that makes the Terraform client before the module is copied
base_setup_client_first(me, dirs, module_ok) ==
    LET d == Len(dirs) + 1
    IN  IF module_ok
        THEN Outcome([test_dir |-> d, terraform |-> d],
                     WriteFiles(Mkdtemp(dirs), d, {"module"}),
                     "returned", <<>>, <<>>, <<>>)
        ELSE Outcome([test_dir |-> d, terraform |-> d],
                     Mkdtemp(dirs), "FileNotFoundError", <<>>, <<>>, <<>>)

\* TerraformTestBase.setup_test_workspace; copytree raises when module_path
\* does not exist, after test_dir was assigned
base_setup_test_workspace(me, dirs, module_ok) ==
    LET d == Len(dirs) + 1
    IN  IF module_ok
        THEN Outcome([test_dir |-> d, terraform |-> d],
                     WriteFiles(Mkdtemp(dirs), d, {"module"}),
                     "returned", <<>>, <<>>, <<>>)
        ELSE Outcome([test_dir |-> d, terraform |-> me.terraform],
                     Mkdtemp(dirs), "FileNotFoundError", <<>>, <<>>, <<>>)

\* TerraformTestBase.create_test_configuration
base_create_test_configuration(me, dirs) ==
    IF me.test_dir = 0
    THEN Outcome(me, dirs, "RuntimeError", <<>>, <<>>, <<>>)
    ELSE IF ~DirExists(dirs, me.test_dir)
    THEN Outcome(me, dirs, "FileNotFoundError", <<>>, <<>>, <<>>)
    ELSE Outcome(me, WriteFiles(dirs, me.test_dir, {"main.tf"}),
                 "returned", <<>>, <<>>, <<>>)

\* A variant without the check of self.terraform: the client method is looked
\* up on None
base_terraform_cmd_unguarded(me, dirs, cmd, outcome) ==
    IF me.terraform = 0
    THEN Outcome(me, dirs, "AttributeError", <<>>, <<>>, <<>>)
    ELSE IF outcome \notin ReturnCodes \/ ~DirExists(dirs, me.terraform)
    THEN Outcome(me, dirs, "FileNotFoundError", <<>>,
                 <<ToolRun(dirs, cmd, me.terraform, outcome)>>, <<>>)
    ELSE Outcome(me, dirs, "returned", RcOf(outcome),
                 <<ToolRun(dirs, cmd, me.terraform, outcome)>>, <<>>)

\* A variant in which the client raises on a non-zero exit
base_terraform_cmd_raise_on_error(me, dirs, cmd, outcome) ==
    IF me.terraform = 0
    THEN Outcome(me, dirs, "RuntimeError", <<>>, <<>>, <<>>)
    ELSE IF outcome \notin ReturnCodes \/ ~DirExists(dirs, me.terraform)
    THEN Outcome(me, dirs, "FileNotFoundError", <<>>,
                 <<ToolRun(dirs, cmd, me.terraform, outcome)>>, <<>>)
    ELSE IF outcome # "zero"
    THEN Outcome(me, dirs, "TerraformCommandError", <<>>,
                 <<ToolRun(dirs, cmd, me.terraform, outcome)>>, <<>>)
    ELSE Outcome(me, dirs, "returned", RcOf(outcome),
                 <<ToolRun(dirs, cmd, me.terraform, outcome)>>, <<>>)

\* TerraformTestBase.terraform_init, terraform_validate and terraform_plan:
\* the guard on self.terraform, then the tool's (ret_code, out, err) returned;
\* the call raises when the tool cannot be started
base_terraform_cmd(me, dirs, cmd, outcome) ==
    IF me.terraform = 0
    THEN Outcome(me, dirs, "RuntimeError", <<>>, <<>>, <<>>)
    ELSE IF outcome \notin ReturnCodes \/ ~DirExists(dirs, me.terraform)
    THEN Outcome(me, dirs, "FileNotFoundError", <<>>,
                 <<ToolRun(dirs, cmd, me.terraform, outcome)>>, <<>>)
    ELSE Outcome(me, dirs, "returned", RcOf(outcome),
                 <<ToolRun(dirs, cmd, me.terraform, outcome)>>, <<>>)

\* A variant that does not look at the return code of show
base_terraform_plan_json_show_unchecked(me, dirs, plan_outcome, show_outcome) ==
    IF me.terraform = 0 \/ me.test_dir = 0
    THEN Outcome(me, dirs, "RuntimeError", <<>>, <<>>, <<>>)
    ELSE IF plan_outcome \notin ReturnCodes \/ ~DirExists(dirs, me.terraform)
    THEN Outcome(me, dirs, "FileNotFoundError", <<>>,
                 <<ToolRun(dirs, "plan", me.terraform, plan_outcome)>>, <<>>)
    ELSE IF plan_outcome # "zero" \/ ~DirExists(dirs, me.test_dir)
    THEN Outcome(me, dirs, "RuntimeError", <<>>,
                 <<ToolRun(dirs, "plan", me.terraform, plan_outcome)>>, <<>>)
    ELSE LET planned == WriteFiles(dirs, me.test_dir, {"plan.tfplan"})
         IN  Outcome(me, planned, "returned", <<>>,
                     <<ToolRun(dirs, "plan", me.terraform, plan_outcome),
                       ToolRun(planned, "show", me.terraform, show_outcome)>>,
                     <<me.test_dir>>)

\* TerraformTestBase.terraform_plan_json: plan -out=<test_dir>/plan.tfplan,
\* then show -json of that file; the document is named by the directory whose
\* plan it shows
base_terraform_plan_json(me, dirs, plan_outcome, show_outcome) ==
    IF me.terraform = 0 \/ me.test_dir = 0
    THEN Outcome(me, dirs, "RuntimeError", <<>>, <<>>, <<>>)
    ELSE IF plan_outcome \notin ReturnCodes \/ ~DirExists(dirs, me.terraform)
    THEN Outcome(me, dirs, "FileNotFoundError", <<>>,
                 <<ToolRun(dirs, "plan", me.terraform, plan_outcome)>>, <<>>)
    ELSE IF plan_outcome # "zero" \/ ~DirExists(dirs, me.test_dir)
    THEN Outcome(me, dirs, "RuntimeError", <<>>,
                 <<ToolRun(dirs, "plan", me.terraform, plan_outcome)>>, <<>>)
    ELSE LET planned == WriteFiles(dirs, me.test_dir, {"plan.tfplan"})
         IN  IF show_outcome # "zero"
             THEN Outcome(me, planned, "RuntimeError", <<>>,
                          <<ToolRun(dirs, "plan", me.terraform, plan_outcome),
                            ToolRun(planned, "show", me.terraform, show_outcome)>>, <<>>)
             ELSE Outcome(me, planned, "returned", <<>>,
                          <<ToolRun(dirs, "plan", me.terraform, plan_outcome),
                            ToolRun(planned, "show", me.terraform, show_outcome)>>,
                          <<me.test_dir>>)

\* A variant that removes the directory but keeps the Terraform client
base_cleanup_keeps_client(me, dirs) ==
    Outcome([test_dir |-> 0, terraform |-> me.terraform],
            IF me.test_dir # 0 /\ DirExists(dirs, me.test_dir)
            THEN Rmtree(dirs, me.test_dir) ELSE dirs,
            "returned", <<>>, <<>>, <<>>)

\* A variant without the guard: rmtree of None or of a missing directory raises
base_cleanup_unguarded(me, dirs) ==
    IF me.test_dir = 0
    THEN Outcome(me, dirs, "TypeError", <<>>, <<>>, <<>>)
    ELSE IF ~DirExists(dirs, me.test_dir)
    THEN Outcome(me, dirs, "FileNotFoundError", <<>>, <<>>, <<>>)
    ELSE Outcome(NoInstance, Rmtree(dirs, me.test_dir), "returned", <<>>, <<>>, <<>>)

\* TerraformTestBase.cleanup
base_cleanup(me, dirs) ==
    Outcome(NoInstance,
            IF me.test_dir # 0 /\ DirExists(dirs, me.test_dir)
            THEN Rmtree(dirs, me.test_dir) ELSE dirs,
            "returned", <<>>, <<>>, <<>>)

\* ---- TerraformValidationTest ----

\* A variant that does not look for the binary
val_init_no_tool_check(installed, module_ok) ==
    IF ~module_ok THEN "ValueError" ELSE "returned"

\* TerraformValidationTest.__init__ with _find_terraform
val_init(installed, module_ok) ==
    IF ~installed THEN "RuntimeError"
    ELSE IF ~module_ok THEN "ValueError"
    ELSE "returned"

\* TerraformValidationTest.cleanup
val_cleanup(me, dirs) ==
    IF me.test_dir # 0 /\ DirExists(dirs, me.test_dir)
    THEN Outcome([me EXCEPT !.test_dir = 0], Rmtree(dirs, me.test_dir),
                 "returned", <<>>, <<>>, <<>>)
    ELSE Outcome(me, dirs, "returned", <<>>, <<>>, <<>>)

\* A variant that works in the module directory itself
val_setup_in_place(me, dirs, module_ok) ==
    IF module_ok
    THEN Outcome([me EXCEPT !.test_dir = ModuleDir], dirs, "returned", <<>>, <<>>, <<>>)
    ELSE Outcome(me, dirs, "FileNotFoundError", <<>>, <<>>, <<>>)

\* TerraformValidationTest.setup_test_workspace: the .tf and .tfvars files of
\* the module are copied into a new directory
val_setup_test_workspace(me, dirs, module_ok) ==
    LET c == IF me.test_dir # 0 THEN val_cleanup(me, dirs)
             ELSE Outcome(me, dirs, "returned", <<>>, <<>>, <<>>)
        d == Len(c.dirs) + 1
    IN  IF module_ok
        THEN Outcome([c.me EXCEPT !.test_dir = d],
                     WriteFiles(Mkdtemp(c.dirs), d, {"module"}),
                     "returned", <<>>, <<>>, <<>>)
        ELSE Outcome([c.me EXCEPT !.test_dir = d], Mkdtemp(c.dirs),
                     "FileNotFoundError", <<>>, <<>>, <<>>)

\* TerraformValidationTest.create_minimal_config
val_create_minimal_config(me, dirs) ==
    IF me.test_dir = 0
    THEN Outcome(me, dirs, "RuntimeError", <<>>, <<>>, <<>>)
    ELSE IF ~DirExists(dirs, me.test_dir)
    THEN Outcome(me, dirs, "FileNotFoundError", <<>>, <<>>, <<>>)
    ELSE Outcome(me, WriteFiles(dirs, me.test_dir, {"terraform.tfvars", "versions.tf"}),
                 "returned", <<>>, <<>>, <<>>)

\* A variant of subprocess.run without the timeout argument: a process that
\* never ends is waited for without end
subprocess_run_no_timeout(b) ==
    IF b.start = "oserror" THEN [outcome |-> "oserror", waited |-> 0]
    ELSE [outcome |-> b.exit, waited |-> b.dur]

\* subprocess.run(cmd, cwd=..., timeout=TIMEOUT) on a process that behaves as b
\* says: the outcome, and how long the caller waited for it
subprocess_run(b) ==
    IF b.start = "oserror" THEN [outcome |-> "oserror", waited |-> 0]
    ELSE IF ~Within(b.dur, TIMEOUT)
    THEN [outcome |-> "timeout", waited |-> TIMEOUT]
    ELSE [outcome |-> b.exit, waited |-> b.dur]

\* The messages of the RuntimeErrors of _run_terraform_command
msg_not_set_up == <<"Test workspace not set up">>
msg_timed_out(cmd) == <<"Terraform command timed out: ", "terraform", cmd>>
msg_failed_to_run == <<"Failed to run terraform command: ", "exception text">>

\* TerraformValidationTest._run_terraform_command on a process behaving as b:
\* TimeoutExpired and any other exception become RuntimeError
val_run_terraform_command(me, dirs, cmd, b) ==
    IF me.test_dir = 0
    THEN Result(me, dirs, "RuntimeError", <<>>, <<>>, <<>>, msg_not_set_up, <<>>)
    ELSE IF ~DirExists(dirs, me.test_dir)
    THEN Result(me, dirs, "RuntimeError", <<>>,
                <<ToolRun(dirs, cmd, me.test_dir, "oserror")>>, <<>>,
                msg_failed_to_run, <<0>>)
    ELSE LET run == subprocess_run(b)
         IN  IF run.outcome \in ReturnCodes
             THEN Result(me, dirs, "returned", RcOf(run.outcome),
                         <<ToolRun(dirs, cmd, me.test_dir, run.outcome)>>, <<>>,
                         <<>>, <<run.waited>>)
             ELSE Result(me, dirs, "RuntimeError", <<>>,
                         <<ToolRun(dirs, cmd, me.test_dir, run.outcome)>>, <<>>,
                         IF run.outcome = "timeout" THEN msg_timed_out(cmd)
                         ELSE msg_failed_to_run,
                         <<run.waited>>)

\* ---- either class ----

\* cleanup of the instance's class
cleanup(cls, me, dirs) ==
    IF cls = "base" THEN base_cleanup(me, dirs) ELSE val_cleanup(me, dirs)

\* A variant that cleans up only when the block ended without an exception
ctx_exit_only_on_success(cls, me, dirs, exc) ==
    IF exc THEN Outcome(me, dirs, "returned", <<>>, <<>>, <<>>)
    ELSE cleanup(cls, me, dirs)

\* __exit__(exc_type, exc_val, exc_tb) of either class: cleanup, whatever ended
\* the block
ctx_exit(cls, me, dirs, exc) == cleanup(cls, me, dirs)

\* TerraformPlanAnalyzer query operations: pure reads of self.plan_json
analyzer_query(a) == IF a = <<>> THEN "AttributeError" ELSE "returned"

----------------------------------------------------------------------------
(* One workspace instance, its calls made in any order *)

\* What the outcomes of the external tool can be for the base class
BaseToolOutcomes == IF tf_installed THEN ReturnCodes ELSE {"oserror"}

InitWorkspace ==
    /\ SelIdle
    /\ ShIdle
    /\ ScIdle
    /\ AnIdle
    /\ arg_all = FALSE
    /\ arg_test_type = "validation"
    /\ ws_cls \in {"base", "validation"}
    /\ tf_installed \in BOOLEAN
    /\ module_exists \in BOOLEAN
    /\ ws_live = FALSE
    /\ self = NoInstance
    /\ tmp = <<ModuleTree(module_exists)>>
    /\ scope = "unscoped"
    /\ last_op = "none"
    /\ last_result = "none"
    /\ last_rc = <<>>
    /\ last_tools = <<>>
    /\ last_msg = <<>>
    /\ last_waited = <<>>
    /\ exited = "no"
    /\ exit_dir = 0
    /\ streak = 0
    /\ ever_setup = FALSE
    /\ plan_json = <<>>
    /\ analyzer = <<>>

Env == <<ws_cls, tf_installed, module_exists>>

\* The call `op` ended as r says.  An exception raised inside a with-block is
\* either caught inside it or leaves it, and then __exit__ runs.
Record(op, r) ==
    /\ last_op' = op
    /\ last_result' = r.result
    /\ last_rc' = r.rc
    /\ last_tools' = r.tools
    /\ last_msg' = r.msg
    /\ last_waited' = r.waited
    /\ \E escapes \in (IF IsException(r.result) /\ scope = "inside"
                       THEN BOOLEAN ELSE {FALSE}) :
         IF escapes
         THEN \E c \in {ctx_exit(ws_cls, r.me, r.dirs, TRUE)} :
                /\ self' = c.me
                /\ tmp' = c.dirs
                /\ scope' = "left"
                /\ exited' = "exception"
                /\ exit_dir' = r.me.test_dir
                /\ streak' = 1
         ELSE /\ self' = r.me
              /\ tmp' = r.dirs
              /\ scope' = scope
              /\ exited' = "no"
              /\ exit_dir' = 0
              /\ streak' = IF op # "cleanup" THEN 0
                           ELSE IF streak = 0 THEN 1 ELSE 2

\* TerraformTestBase(path) or TerraformValidationTest(path), possibly as the
\* head of a with statement
Construct ==
    /\ ~ws_live
    /\ last_op = "none"
    /\ LET result == IF ws_cls = "base" THEN "returned"
                     ELSE val_init(tf_installed, module_exists)
       IN  /\ last_result' = result
           /\ ws_live' = (result = "returned")
           /\ scope' \in (IF result = "returned"
                          THEN {"unscoped", "inside"} ELSE {"unscoped"})
    /\ last_op' = "__init__"
    /\ UNCHANGED <<selVars, anVars, shVars, scVars, Env, self, tmp, last_rc, last_tools, last_msg,
                   last_waited, exited, exit_dir,
                   streak, ever_setup, plan_json, analyzer>>

SetupTestWorkspace ==
    /\ ws_live
    /\ Len(tmp) - 1 < MaxDirs
    /\ Record("setup_test_workspace",
              IF ws_cls = "base"
              THEN base_setup_test_workspace(self, tmp, module_exists)
              ELSE val_setup_test_workspace(self, tmp, module_exists))
    /\ ever_setup' = TRUE
    /\ UNCHANGED <<selVars, anVars, shVars, scVars, Env, ws_live, plan_json, analyzer>>

\* create_test_configuration, or create_minimal_config of the validation class
CreateConfiguration ==
    /\ ws_live
    /\ Record("create_configuration",
              IF ws_cls = "base"
              THEN base_create_test_configuration(self, tmp)
              ELSE val_create_minimal_config(self, tmp))
    /\ UNCHANGED <<selVars, anVars, shVars, scVars, Env, ws_live, ever_setup, plan_json, analyzer>>

\* terraform_init, or terraform_init_backend_false of the validation class
TerraformInit ==
    /\ ws_live
    /\ \/ /\ ws_cls = "base"
          /\ \E o \in BaseToolOutcomes :
               Record("terraform_init", base_terraform_cmd(self, tmp, "init", o))
       \/ /\ ws_cls = "validation"
          /\ \E b \in ProcessBehaviours :
               Record("terraform_init", val_run_terraform_command(self, tmp, "init", b))
    /\ UNCHANGED <<selVars, anVars, shVars, scVars, Env, ws_live, ever_setup, plan_json, analyzer>>

TerraformValidate ==
    /\ ws_live
    /\ \/ /\ ws_cls = "base"
          /\ \E o \in BaseToolOutcomes :
               Record("terraform_validate", base_terraform_cmd(self, tmp, "validate", o))
       \/ /\ ws_cls = "validation"
          /\ \E b \in ProcessBehaviours :
               Record("terraform_validate",
                      val_run_terraform_command(self, tmp, "validate", b))
    /\ UNCHANGED <<selVars, anVars, shVars, scVars, Env, ws_live, ever_setup, plan_json, analyzer>>

TerraformPlan ==
    /\ ws_live
    /\ ws_cls = "base"
    /\ \E o \in BaseToolOutcomes :
         Record("terraform_plan", base_terraform_cmd(self, tmp, "plan", o))
    /\ UNCHANGED <<selVars, anVars, shVars, scVars, Env, ws_live, ever_setup, plan_json, analyzer>>

TerraformPlanJson ==
    /\ ws_live
    /\ ws_cls = "base"
    /\ \E po \in BaseToolOutcomes, so \in BaseToolOutcomes :
         \E r \in {base_terraform_plan_json(self, tmp, po, so)} :
            /\ Record("terraform_plan_json", r)
            /\ plan_json' = IF r.result = "returned" THEN r.doc ELSE plan_json
    /\ UNCHANGED <<selVars, anVars, shVars, scVars, Env, ws_live, ever_setup, analyzer>>

TerraformFmtCheck ==
    /\ ws_live
    /\ ws_cls = "validation"
    /\ \E b \in ProcessBehaviours :
         Record("terraform_fmt_check", val_run_terraform_command(self, tmp, "fmt", b))
    /\ UNCHANGED <<selVars, anVars, shVars, scVars, Env, ws_live, ever_setup, plan_json, analyzer>>

Cleanup ==
    /\ ws_live
    /\ Record("cleanup", cleanup(ws_cls, self, tmp))
    /\ UNCHANGED <<selVars, anVars, shVars, scVars, Env, ws_live, ever_setup, plan_json, analyzer>>

\* The with-block ends, normally or by an exception of the test's own
ExitScope ==
    /\ ws_live
    /\ scope = "inside"
    /\ \E exc \in BOOLEAN :
         \E c \in {ctx_exit(ws_cls, self, tmp, exc)} :
            /\ self' = c.me
            /\ tmp' = c.dirs
            /\ exited' = IF exc THEN "exception" ELSE "normal"
    /\ scope' = "left"
    /\ exit_dir' = self.test_dir
    /\ last_op' = "__exit__"
    /\ last_result' = "returned"
    /\ last_rc' = <<>>
    /\ last_tools' = <<>>
    /\ last_msg' = <<>>
    /\ last_waited' = <<>>
    /\ streak' = IF streak = 0 THEN 1 ELSE 2
    /\ UNCHANGED <<selVars, anVars, shVars, scVars, Env, ws_live, ever_setup, plan_json, analyzer>>

\* analyzer = TerraformPlanAnalyzer(plan_json)
BuildAnalyzer ==
    /\ ws_live
    /\ plan_json # <<>>
    /\ analyzer # plan_json
    /\ analyzer' = plan_json
    /\ UNCHANGED <<selVars, anVars, shVars, scVars, Env, ws_live, self, tmp, scope, last_op, last_result,
                   last_rc, last_tools, last_msg, last_waited, exited, exit_dir,
                   streak, ever_setup,
                   plan_json>>

\* A query operation of the analyzer (resource_count, resources_to_create, ...)
QueryAnalyzer ==
    /\ ws_live
    /\ analyzer # <<>>
    /\ last_op' = "analyzer_query"
    /\ last_result' = analyzer_query(analyzer)
    /\ last_rc' = <<>>
    /\ last_tools' = <<>>
    /\ last_msg' = <<>>
    /\ last_waited' = <<>>
    /\ exited' = "no"
    /\ exit_dir' = 0
    /\ streak' = 0
    /\ UNCHANGED <<selVars, anVars, shVars, scVars, Env, ws_live, self, tmp, scope, ever_setup, plan_json,
                   analyzer>>

NextWorkspace ==
    \/ Construct
    \/ SetupTestWorkspace
    \/ CreateConfiguration
    \/ TerraformInit
    \/ TerraformValidate
    \/ TerraformPlan
    \/ TerraformPlanJson
    \/ TerraformFmtCheck
    \/ Cleanup
    \/ ExitScope
    \/ BuildAnalyzer
    \/ QueryAnalyzer

SpecWorkspace == InitWorkspace /\ [][NextWorkspace]_vars

----------------------------------------------------------------------------
(* Claims about the workspace classes *)

\* The lifecycle state of the instance: 0 UNINITIALIZED, 1 WORKSPACE_READY,
\* 2 CONFIGURED, 3 PLANNED, 4 CLEANED_UP
Phase(me, dirs, was_setup) ==
    IF me.test_dir = 0 THEN (IF was_setup THEN 4 ELSE 0)
    ELSE IF ~DirExists(dirs, me.test_dir) THEN 1
    ELSE IF "plan.tfplan" \in dirs[me.test_dir].files THEN 3
    ELSE IF "main.tf" \in dirs[me.test_dir].files THEN 2
    ELSE 1

\* The tool runs of the last call that were init, validate or plan
WorkflowRuns ==
    { last_tools[i] : i \in { j \in 1..Len(last_tools) :
                                 last_tools[j].cmd \in {"init", "validate", "plan"} } }

\* C7 as stated: on a TerraformTestBase instance init, validate and plan never
\* run in a workspace whose root configuration has not been written, and no
\* call other than cleanup moves an instance that has not been cleaned up to an
\* earlier lifecycle state.
C7_Original ==
    /\ [](ws_cls = "base" => \A t \in WorkflowRuns : t.has_main_tf)
    /\ [][ws_cls = "base" =>
            \/ Phase(self, tmp, ever_setup) = 4
            \/ Phase(self', tmp', ever_setup') >= Phase(self, tmp, ever_setup)
            \/ last_op' = "cleanup"]_vars

\* C7 as amended: on a TerraformTestBase instance init, validate and plan run
\* the tool only in an existing workspace directory that holds the module copy
\* made by setup_test_workspace and has not been cleaned up; the root
\* configuration need not have been written.  The lifecycle state moves to an
\* earlier one only by a further setup_test_workspace call.
C7_SetupBeforeTool ==
    /\ [](ws_cls = "base" =>
            \A t \in WorkflowRuns : t.dir_exists /\ t.has_module)
    /\ [][ws_cls = "base" =>
            \/ Phase(self', tmp', ever_setup') >= Phase(self, tmp, ever_setup)
            \/ last_op' = "setup_test_workspace"]_vars

\* C7 witness: terraform_plan_json returned after the whole lifecycle, its plan
\* run in a configured workspace.
C7_Witness ==
    /\ ws_cls = "base"
    /\ last_op = "terraform_plan_json"
    /\ last_result = "returned"
    /\ Phase(self, tmp, ever_setup) = 3
    /\ \A t \in WorkflowRuns : t.has_main_tf /\ t.has_module

\* C8: whenever a with-block of either class is left, normally or by an
\* exception, cleanup has run: the instance's temporary directory no longer
\* exists and its workspace reference is cleared.
C8_ExitCleansUp ==
    exited # "no" =>
        /\ scope = "left"
        /\ self.test_dir = 0
        /\ ws_cls = "base" => self.terraform = 0
        /\ exit_dir # 0 => ~DirExists(tmp, exit_dir)

\* C8 witness: an exception raised by a call left the with-block while the
\* instance held a workspace directory.
C8_Witness ==
    /\ exited = "exception"
    /\ last_result = "RuntimeError"
    /\ exit_dir # 0
    /\ last_tools # <<>>

\* C9: from any reachable state, cleanup twice in a row raises nothing and
\* leaves the instance and the directories as one cleanup does.
C9_CleanupIdempotent ==
    ws_live =>
        /\ LET once == cleanup(ws_cls, self, tmp)
               twice == cleanup(ws_cls, once.me, once.dirs)
           IN  /\ once.result = "returned"
               /\ twice.result = "returned"
               /\ twice.me = once.me
               /\ twice.dirs = once.dirs
        /\ streak >= 1 =>
              /\ cleanup(ws_cls, self, tmp).me = self
              /\ cleanup(ws_cls, self, tmp).dirs = tmp
        /\ (streak >= 1 /\ exited = "no") => last_result = "returned"

\* C9 witness: cleanup was called twice in a row on an instance that had a
\* workspace.
C9_Witness ==
    /\ streak = 2
    /\ last_op = "cleanup"
    /\ ever_setup
    /\ \E d \in 2..Len(tmp) : ~tmp[d].exists

\* The instance was set up and has been cleaned up since
Cleaned == ws_live /\ ever_setup /\ self.test_dir = 0

\* The operations that need a workspace
WorkspaceOps ==
    {"create_configuration", "terraform_init", "terraform_validate",
     "terraform_plan", "terraform_plan_json", "terraform_fmt_check"}

\* Every operation that needs a workspace would raise RuntimeError now, without
\* running the tool
AllOpsRaise ==
    IF ws_cls = "base"
    THEN /\ base_create_test_configuration(self, tmp).result = "RuntimeError"
         /\ \A cmd \in {"init", "validate", "plan"}, o \in ToolOutcomes :
               LET r == base_terraform_cmd(self, tmp, cmd, o)
               IN  r.result = "RuntimeError" /\ r.tools = <<>>
         /\ \A po \in ToolOutcomes, so \in ToolOutcomes :
               LET r == base_terraform_plan_json(self, tmp, po, so)
               IN  r.result = "RuntimeError" /\ r.tools = <<>>
    ELSE /\ val_create_minimal_config(self, tmp).result = "RuntimeError"
         /\ \A cmd \in {"init", "validate", "fmt"}, b \in ProcessBehaviours :
               LET r == val_run_terraform_command(self, tmp, cmd, b)
               IN  r.result = "RuntimeError" /\ r.tools = <<>>

\* A call made on the instance in its present state, which it did not change
CalledHere(ops) == last_op \in ops /\ exited = "no"

\* C10 as stated: after cleanup every operation of the instance raises
\* RuntimeError, and plan data obtained before cleanup can no longer be read
\* through the query operations.
C10_Original ==
    Cleaned =>
        /\ AllOpsRaise
        /\ CalledHere(WorkspaceOps) => last_result = "RuntimeError"
        /\ analyzer # <<>> => analyzer_query(analyzer) = "RuntimeError"
        /\ CalledHere({"analyzer_query"}) => last_result = "RuntimeError"

\* C10 as amended: after cleanup every operation of the workspace instance
\* (create configuration, init, validate, plan, plan-as-JSON, the validation
\* path's command runner) raises RuntimeError without running the tool; a
\* TerraformPlanAnalyzer built from a plan document obtained before cleanup is
\* not affected and still answers its queries from that document.
C10_OpsRaiseAnalyzerKept ==
    Cleaned =>
        /\ AllOpsRaise
        /\ CalledHere(WorkspaceOps) =>
              (last_result = "RuntimeError" /\ last_tools = <<>>)
        /\ analyzer # <<>> => analyzer_query(analyzer) = "returned"
        /\ CalledHere({"analyzer_query"}) => last_result = "returned"

\* C10 witness: after cleanup terraform_plan_json raised RuntimeError while an
\* analyzer built before the cleanup still holds its document.
C10_Witness ==
    /\ Cleaned
    /\ CalledHere({"terraform_plan_json"})
    /\ last_result = "RuntimeError"
    /\ analyzer # <<>>
    /\ ~DirExists(tmp, analyzer[1])

\* The runs of the commands `cmds` that the last call made and that exited
\* non-zero
NonZeroRuns(cmds) ==
    { last_tools[i] : i \in { j \in 1..Len(last_tools) :
                                 /\ last_tools[j].cmd \in cmds
                                 /\ last_tools[j].exit = "nonzero" } }

\* C11 as stated: in the plan workflow a call in which init or show exited
\* non-zero raises; it never returns a result.
C11_Original ==
    ws_cls = "base" =>
        (NonZeroRuns({"init", "show"}) # {} => IsException(last_result))

\* C11 as amended: a non-zero exit of show makes terraform_plan_json raise
\* RuntimeError, never return a document; a non-zero exit of init is returned
\* by terraform_init as its (ret_code, out, err) result with that non-zero
\* code and is not raised.
C11_ShowRaisesInitReturns ==
    ws_cls = "base" =>
        /\ NonZeroRuns({"show"}) # {} =>
              (last_op = "terraform_plan_json" /\ last_result = "RuntimeError")
        /\ NonZeroRuns({"init"}) # {} =>
              (last_op = "terraform_init" /\ last_result = "returned"
               /\ last_rc = <<1>>)

\* C11 witness: terraform_plan_json raised because show exited non-zero after
\* a plan that exited zero.
C11_Witness ==
    /\ ws_cls = "base"
    /\ last_op = "terraform_plan_json"
    /\ last_result = "RuntimeError"
    /\ NonZeroRuns({"show"}) # {}
    /\ Len(last_tools) = 2
    /\ last_tools[1].exit = "zero"

\* C12 as stated: in the plan workflow a call in which plan or validate exited
\* non-zero returns the (ret_code, out, err) value and does not raise,
\* terraform_plan_json included.
C12_Original ==
    ws_cls = "base" =>
        (NonZeroRuns({"plan", "validate"}) # {} =>
            (last_result = "returned" /\ last_rc = <<1>>))

\* C12 as amended: terraform_validate and terraform_plan return a non-zero exit
\* as their (ret_code, out, err) value and do not raise; terraform_plan_json
\* raises RuntimeError when its plan step exits non-zero, and does not run show.
C12_PlanJsonRaises ==
    ws_cls = "base" =>
        (NonZeroRuns({"plan", "validate"}) # {} =>
            IF last_op = "terraform_plan_json"
            THEN last_result = "RuntimeError" /\ Len(last_tools) = 1
            ELSE /\ last_op \in {"terraform_plan", "terraform_validate"}
                 /\ last_result = "returned"
                 /\ last_rc = <<1>>)

\* C12 witness: terraform_plan returned the non-zero code of a failed plan.
C12_Witness ==
    /\ ws_cls = "base"
    /\ last_op = "terraform_plan"
    /\ last_result = "returned"
    /\ last_rc = <<1>>
    /\ NonZeroRuns({"plan"}) # {}
    /\ \A t \in NonZeroRuns({"plan"}) : t.has_main_tf

\* The tool runs of the last call
LastRuns == { last_tools[i] : i \in 1..Len(last_tools) }

\* C13: in the validation path a command that runs past the timeout ends in a
\* RuntimeError whose message names the command; a command that exits non-zero
\* is returned as a value without raising, and no other error carries the
\* timeout message; the caller never waits for a command longer than the
\* timeout.
C13_TimeoutDistinctAndBounded ==
    ws_cls = "validation" =>
        /\ \A t \in LastRuns :
              /\ t.exit = "timeout" =>
                    (last_result = "RuntimeError" /\ last_msg = msg_timed_out(t.cmd))
              /\ t.exit = "nonzero" =>
                    (last_result = "returned" /\ last_rc = <<1>> /\ last_msg = <<>>)
              /\ t.exit # "timeout" => last_msg # msg_timed_out(t.cmd)
        /\ last_tools # <<>> =>
              (last_waited # <<>> /\ Within(last_waited[1], TIMEOUT))
        /\ self.test_dir # 0 =>
              \A cmd \in {"init", "validate", "fmt"}, b \in ProcessBehaviours :
                 LET r == val_run_terraform_command(self, tmp, cmd, b)
                 IN  /\ r.waited # <<>>
                     /\ Within(r.waited[1], TIMEOUT)

\* C13 witness: a command of the validation path ran past the timeout and the
\* call raised after waiting for exactly the timeout.
C13_Witness ==
    /\ ws_cls = "validation"
    /\ last_op = "terraform_validate"
    /\ last_result = "RuntimeError"
    /\ last_msg = msg_timed_out("validate")
    /\ last_waited = <<TIMEOUT>>
    /\ \E t \in LastRuns : t.exit = "timeout" /\ t.dir_exists

\* C14 as stated: with no terraform binary on the search path no instance of
\* either class is constructed; the constructor raises.
C14_Original ==
    ~tf_installed =>
        /\ ~ws_live
        /\ last_op = "__init__" => IsException(last_result)

\* C14 as amended: with no terraform binary on the search path the constructor
\* of TerraformValidationTest raises RuntimeError and no instance exists; the
\* constructor of TerraformTestBase returns, and the missing binary shows only
\* when a call first runs the tool, which then raises.
C14_OnlyValidationChecksAtConstruction ==
    ~tf_installed =>
        /\ ws_cls = "validation" =>
              /\ ~ws_live
              /\ last_op \in {"none", "__init__"}
              /\ last_op = "__init__" => last_result = "RuntimeError"
        /\ ws_cls = "base" =>
              /\ last_op = "__init__" => (last_result = "returned" /\ ws_live)
              /\ \A t \in LastRuns :
                    t.exit = "oserror" /\ last_result = "FileNotFoundError"

\* C14 witness: the constructor of TerraformValidationTest raised RuntimeError
\* because no binary was found, although the module path exists.
C14_Witness ==
    /\ ws_cls = "validation"
    /\ ~tf_installed
    /\ module_exists
    /\ last_op = "__init__"
    /\ last_result = "RuntimeError"
    /\ ~ws_live

\* C20: the original module directory is always as the instance found it: no
\* call of either class writes into it or removes it, the instance's workspace
\* is never the module directory, and the tool never runs there.
C20_ModuleDirectoryUntouched ==
    ws_cls \in {"base", "validation"} =>
        /\ tmp[ModuleDir] = ModuleTree(module_exists)
        /\ self.test_dir # ModuleDir
        /\ self.terraform # ModuleDir
        /\ \A t \in LastRuns : t.dir # ModuleDir
        /\ ws_live =>
              /\ cleanup(ws_cls, self, tmp).dirs[ModuleDir] = tmp[ModuleDir]
              /\ (IF ws_cls = "base" THEN base_create_test_configuration(self, tmp)
                  ELSE val_create_minimal_config(self, tmp)).dirs[ModuleDir]
                    = tmp[ModuleDir]

\* C20 witness: two workspaces were set up from the module and both have been
\* removed, and the module directory still holds its files.
C20_Witness ==
    /\ module_exists
    /\ last_op = "cleanup"
    /\ ever_setup
    /\ Len(tmp) = 3
    /\ \A d \in 2..3 : ~tmp[d].exists
    /\ tmp[ModuleDir].files = ModuleFiles

\* C26: on a TerraformTestBase instance on which setup_test_workspace has not
\* been called, create_test_configuration, terraform_init, terraform_validate,
\* terraform_plan and terraform_plan_json each raise RuntimeError, run no tool,
\* write no file and leave the instance as it was.
C26_OpsRaiseBeforeSetup ==
    (ws_cls = "base" /\ ws_live /\ ~ever_setup) =>
        LET raises == Outcome(self, tmp, "RuntimeError", <<>>, <<>>, <<>>)
        IN  /\ self = NoInstance
            /\ tmp = <<ModuleTree(module_exists)>>
            /\ base_create_test_configuration(self, tmp) = raises
            /\ \A cmd \in {"init", "validate", "plan"}, o \in ToolOutcomes :
                  base_terraform_cmd(self, tmp, cmd, o) = raises
            /\ \A po \in ToolOutcomes, so \in ToolOutcomes :
                  base_terraform_plan_json(self, tmp, po, so) = raises
            /\ last_op \in WorkspaceOps =>
                  /\ last_result = "RuntimeError"
                  /\ last_tools = <<>>
                  /\ last_rc = <<>>
                  /\ plan_json = <<>>

\* C26 witness: terraform_plan_json was called on a TerraformTestBase instance
\* that was never set up, and raised RuntimeError.
C26_Witness ==
    /\ ws_cls = "base"
    /\ ws_live
    /\ ~ever_setup
    /\ last_op = "terraform_plan_json"
    /\ last_result = "RuntimeError"
    /\ last_tools = <<>>

\* The temporary directories that exist
LiveDirs(dirs) == {d \in 2..Len(dirs) : dirs[d].exists}

\* C27 as stated: on a TerraformTestBase instance, once cleanup has returned no
\* temporary directory made by an earlier setup_test_workspace exists, and at
\* no time does more than one of them exist.
C27_Original ==
    ws_cls = "base" =>
        /\ (last_op = "cleanup" /\ last_result = "returned") => LiveDirs(tmp) = {}
        /\ Cardinality(LiveDirs(tmp)) <= 1

----------------------------------------------------------------------------
(* Plan documents *)

MaxChanges == 2     \* most entries of resource_changes
MaxResources == 2   \* most entries of a resources list

\* A key of a JSON object that may be missing: <<>> when it is, <<v>> when it
\* holds v.  dict.get(key, default):
Get(opt, default) == IF opt = <<>> THEN default ELSE opt[1]

\* An attribute of `values` is "absent", "null" or a string; dict.get(key) of
\* it, with "null" for None
PyGet(field) == IF field = "absent" THEN "null" ELSE field

SeqsUpTo(S, n) == UNION { [1..k -> S] : k \in 0..n }

ResourceTypes == {"rg", "sa"}

AttrNames == {"name", "tags"}

\* The `values` of a planned resource
ValuesObjects ==
    [name : {"a"}, tags : {"absent", "null", "a"}] \cup {[name |-> "b", tags |-> "a"]}

\* An entry of planned_values.root_module.resources
Resources == [type : ResourceTypes, values : {<<>>} \cup { <<v>> : v \in ValuesObjects }]

\* change.actions: missing, empty, one verb, the replace sequence
ActionLists ==
    {<<>>, << <<>> >>, << <<"create">> >>, << <<"update">> >>, << <<"delete">> >>,
     << <<"no-op">> >>, << <<"delete", "create">> >>}

\* An entry of resource_changes
Changes ==
    [type : {"rg"},
     change : {<<>>} \cup { <<[actions |-> a]>> : a \in ActionLists }]

\* The {} defaults of the chained dict.get calls
EmptyPlannedValues == [root_module |-> <<>>, outputs |-> <<>>]
EmptyRootModule == [resources |-> <<>>, child_modules |-> <<>>]
EmptyChange == [actions |-> <<>>]

\* A document with the given resources of the root module and resource changes
Document(resources, changes) ==
    [planned_values |->
        IF resources = <<>> THEN <<>>
        ELSE <<[root_module |-> <<[resources |-> resources, child_modules |-> <<>>]>>,
                outputs |-> <<>>]>>,
     resource_changes |-> changes]

\* What `terraform show -json` prints for a plan with no prior state of a
\* configuration whose resources are rs: every resource is to be created.  The
\* resources of the root configuration are listed under root_module.resources,
\* those of a module it calls ("child") under root_module.child_modules.
terraform_show_json(layout, rs) ==
    [planned_values |->
        <<[root_module |->
             <<IF layout = "root"
               THEN [resources |-> <<rs>>, child_modules |-> <<>>]
               ELSE [resources |-> <<>>,
                     child_modules |-> << <<[resources |-> rs]>> >>]>>,
           outputs |-> <<{"module_outputs"}>>]>>,
     resource_changes |->
        <<[i \in 1..Len(rs) |->
             [type |-> rs[i].type, change |-> <<[actions |-> << <<"create">> >>]>>]]>>]

\* Documents with any resource changes
ChangeDocs ==
    { Document(<<>>, c) :
        c \in {<<>>} \cup { <<l>> : l \in SeqsUpTo(Changes, MaxChanges) } }

\* Documents with any resources in the root module
ResourceDocs ==
    { Document(<<l>>, <<>>) : l \in SeqsUpTo(Resources, MaxResources) }

\* Where the resources of a planned configuration are defined
PlanLayouts == {"root", "child"}

\* The resources a planned module defines
ModuleResources == [type : ResourceTypes, values : {<<[name |-> "a", tags |-> "a"]>>}]

\* Documents of plans with no prior state
FreshPlanDocs ==
    { terraform_show_json(layout, rs) :
        layout \in PlanLayouts, rs \in SeqsUpTo(ModuleResources, MaxResources) }

PlanDocuments == ChangeDocs \cup ResourceDocs \cup FreshPlanDocs

----------------------------------------------------------------------------
(* TerraformPlanAnalyzer: each method gives self.plan_json after the call and
   the value returned *)

Returns(doc, value) == [plan_json |-> doc, ret |-> value]

\* A variant that reads with setdefault, which stores the default it returns
get_resource_changes_setdefault(doc) ==
    Returns([doc EXCEPT !.resource_changes = << Get(doc.resource_changes, <<>>) >>],
            Get(doc.resource_changes, <<>>))

\* get_planned_resources
get_planned_resources(doc) ==
    Returns(doc,
            Get(Get(Get(doc.planned_values, EmptyPlannedValues).root_module,
                    EmptyRootModule).resources, <<>>))

\* get_resource_changes
get_resource_changes(doc) == Returns(doc, Get(doc.resource_changes, <<>>))

\* A variant that looks only at the first action
ActionsStartWith(change, verb) ==
    LET actions == Get(Get(change.change, EmptyChange).actions, <<>>)
    IN  actions # <<>> /\ actions[1] = verb

\* change.get("change", {}).get("actions") == [verb]
ActionsAre(change, verb) == Get(change.change, EmptyChange).actions = << <<verb>> >>

\* A variant that looks for the verb anywhere in the actions list
resources_holding_action(doc, verb) ==
    LET r == get_resource_changes(doc)
    IN  Returns(r.plan_json,
                SelectSeq(r.ret,
                          LAMBDA c :
                             LET actions == Get(Get(c.change, EmptyChange).actions, <<>>)
                             IN  \E i \in 1..Len(actions) : actions[i] = verb))

\* [change for change in self.get_resource_changes() if ...actions == [verb]]
resources_with_action(doc, verb) ==
    LET r == get_resource_changes(doc)
    IN  Returns(r.plan_json, SelectSeq(r.ret, LAMBDA c : ActionsAre(c, verb)))

resources_to_create(doc) == resources_with_action(doc, "create")

resources_to_update(doc) == resources_with_action(doc, "update")

resources_to_delete(doc) == resources_with_action(doc, "delete")

\* get_resource_by_type
get_resource_by_type(doc, resource_type) ==
    LET r == get_planned_resources(doc)
    IN  Returns(r.plan_json, SelectSeq(r.ret, LAMBDA x : x.type = resource_type))

\* get_outputs
get_outputs(doc) ==
    Returns(doc, Get(Get(doc.planned_values, EmptyPlannedValues).outputs, {}))

\* has_resource_type
has_resource_type(doc, resource_type) ==
    LET r == get_resource_by_type(doc, resource_type)
    IN  Returns(r.plan_json, Len(r.ret) > 0)

\* resource_count
resource_count(doc) ==
    LET r == get_planned_resources(doc)
    IN  Returns(r.plan_json, Len(r.ret))

\* The keys of expected_attributes: a key is "absent" from it or holds a value
ExpectedKeys(expected) == { k \in AttrNames : expected[k] # "absent" }

\* values.get(attr_name) != expected_value for some item of expected_attributes
Mismatch(resource, expected) ==
    LET values == Get(resource.values, [name |-> "absent", tags |-> "absent"])
    IN  \E k \in ExpectedKeys(expected) : PyGet(values[k]) # expected[k]

\* The loop of validate_resource_attributes from the i-th resource on
RECURSIVE ValidateFrom(_, _, _)
ValidateFrom(resources, i, expected) ==
    IF i > Len(resources) THEN TRUE
    ELSE IF Mismatch(resources[i], expected) THEN FALSE
    ELSE ValidateFrom(resources, i + 1, expected)

\* validate_resource_attributes
validate_resource_attributes(doc, resource_type, expected) ==
    LET r == get_resource_by_type(doc, resource_type)
    IN  Returns(r.plan_json, ValidateFrom(r.ret, 1, expected))

----------------------------------------------------------------------------
(* One analyzer, queried in any order *)

\* The expected_attributes passed to validate_resource_attributes
ExpectedAttributes == [name : {"absent", "a"}, tags : {"absent", "a", "null"}]

NoExpected == [name |-> "absent", tags |-> "absent"]

Query(op, resource_type, expected) ==
    [op |-> op, type |-> resource_type, expected |-> expected]

\* analyzer = TerraformPlanAnalyzer(plan_json)
InitAnalyzer ==
    /\ SelIdle
    /\ ShIdle
    /\ ScIdle
    /\ arg_all = FALSE
    /\ arg_test_type = "validation"
    /\ WsIdle
    /\ an_doc0 \in PlanDocuments
    /\ an_doc = an_doc0
    /\ an_query = Query("none", "-", NoExpected)
    /\ an_result = <<>>
    /\ an_before = <<>>

\* The query q was made and ended as r says
Answer(q, r) ==
    /\ an_doc' = r.plan_json
    /\ an_result' = r.ret
    /\ an_before' = IF an_query = q THEN <<an_result>> ELSE <<>>
    /\ an_query' = q

GetPlannedResources ==
    /\ Answer(Query("get_planned_resources", "-", NoExpected),
              get_planned_resources(an_doc))
    /\ UNCHANGED <<selVars, wsVars, shVars, scVars, an_doc0>>

GetResourceChanges ==
    /\ Answer(Query("get_resource_changes", "-", NoExpected),
              get_resource_changes(an_doc))
    /\ UNCHANGED <<selVars, wsVars, shVars, scVars, an_doc0>>

ResourcesToCreate ==
    /\ Answer(Query("resources_to_create", "-", NoExpected),
              resources_to_create(an_doc))
    /\ UNCHANGED <<selVars, wsVars, shVars, scVars, an_doc0>>

ResourcesToUpdate ==
    /\ Answer(Query("resources_to_update", "-", NoExpected),
              resources_to_update(an_doc))
    /\ UNCHANGED <<selVars, wsVars, shVars, scVars, an_doc0>>

ResourcesToDelete ==
    /\ Answer(Query("resources_to_delete", "-", NoExpected),
              resources_to_delete(an_doc))
    /\ UNCHANGED <<selVars, wsVars, shVars, scVars, an_doc0>>

GetResourceByType ==
    /\ \E t \in ResourceTypes :
          Answer(Query("get_resource_by_type", t, NoExpected),
                 get_resource_by_type(an_doc, t))
    /\ UNCHANGED <<selVars, wsVars, shVars, scVars, an_doc0>>

GetOutputs ==
    /\ Answer(Query("get_outputs", "-", NoExpected), get_outputs(an_doc))
    /\ UNCHANGED <<selVars, wsVars, shVars, scVars, an_doc0>>

HasResourceType ==
    /\ \E t \in ResourceTypes :
          Answer(Query("has_resource_type", t, NoExpected),
                 has_resource_type(an_doc, t))
    /\ UNCHANGED <<selVars, wsVars, shVars, scVars, an_doc0>>

ResourceCount ==
    /\ Answer(Query("resource_count", "-", NoExpected), resource_count(an_doc))
    /\ UNCHANGED <<selVars, wsVars, shVars, scVars, an_doc0>>

ValidateResourceAttributes ==
    /\ \E t \in ResourceTypes, expected \in ExpectedAttributes :
          Answer(Query("validate_resource_attributes", t, expected),
                 validate_resource_attributes(an_doc, t, expected))
    /\ UNCHANGED <<selVars, wsVars, shVars, scVars, an_doc0>>

NextAnalyzer ==
    \/ GetPlannedResources
    \/ GetResourceChanges
    \/ ResourcesToCreate
    \/ ResourcesToUpdate
    \/ ResourcesToDelete
    \/ GetResourceByType
    \/ GetOutputs
    \/ HasResourceType
    \/ ResourceCount
    \/ ValidateResourceAttributes

SpecAnalyzer == InitAnalyzer /\ [][NextAnalyzer]_vars

----------------------------------------------------------------------------
(* Claims about the analyzer *)

\* The resource changes of the document, an empty list when the key is missing
ChangesOf(doc) == IF doc.resource_changes = <<>> THEN <<>> ELSE doc.resource_changes[1]

\* The action list of a change is exactly the one-element list naming the verb
HasExactly(change, verb) ==
    /\ change.change # <<>>
    /\ change.change[1].actions # <<>>
    /\ Len(change.change[1].actions[1]) = 1
    /\ change.change[1].actions[1][1] = verb

\* C15: for the document of any reachable state the results of
\* resources_to_create, resources_to_update and resources_to_delete have no
\* resource change in common, pairwise.
C15_CreateUpdateDeleteDisjoint ==
    LET c == Range(resources_to_create(an_doc).ret)
        u == Range(resources_to_update(an_doc).ret)
        d == Range(resources_to_delete(an_doc).ret)
    IN  /\ c \cap u = {}
        /\ c \cap d = {}
        /\ u \cap d = {}
        /\ an_query.op = "resources_to_create" => Range(an_result) \cap (u \cup d) = {}
        /\ an_query.op = "resources_to_update" => Range(an_result) \cap (c \cup d) = {}
        /\ an_query.op = "resources_to_delete" => Range(an_result) \cap (c \cup u) = {}

\* C15 witness: resources_to_update returned a change of a document that also
\* holds a replace sequence.
C15_Witness ==
    /\ an_query.op = "resources_to_update"
    /\ an_result # <<>>
    /\ \E i \in 1..Len(ChangesOf(an_doc)) :
          /\ ChangesOf(an_doc)[i].change # <<>>
          /\ ChangesOf(an_doc)[i].change[1].actions = << <<"delete", "create">> >>

\* C16: a resource change is returned by resources_to_create (update, delete)
\* exactly when its actions list is the one-element list naming that verb, in
\* the order of the document; a change whose actions are missing, empty or
\* several is returned by none of the three.
C16_ExactSingleVerb ==
    LET changes == ChangesOf(an_doc)
        Matching(verb) == SelectSeq(changes, LAMBDA c : HasExactly(c, verb))
    IN  /\ resources_to_create(an_doc).ret = Matching("create")
        /\ resources_to_update(an_doc).ret = Matching("update")
        /\ resources_to_delete(an_doc).ret = Matching("delete")
        /\ \A i \in 1..Len(changes) :
              (\/ changes[i].change = <<>>
               \/ changes[i].change[1].actions = <<>>
               \/ Len(changes[i].change[1].actions[1]) # 1)
              => \A verb \in {"create", "update", "delete"} :
                    changes[i] \notin Range(resources_with_action(an_doc, verb).ret)
        /\ an_query.op = "resources_to_create" => an_result = Matching("create")
        /\ an_query.op = "resources_to_update" => an_result = Matching("update")
        /\ an_query.op = "resources_to_delete" => an_result = Matching("delete")

\* C16 witness: resources_to_delete returned the one change whose actions are
\* exactly delete and left out a replace sequence of the same document.
C16_Witness ==
    /\ an_query.op = "resources_to_delete"
    /\ Len(an_result) = 1
    /\ Len(ChangesOf(an_doc)) = 2
    /\ \E i \in 1..2 :
          /\ ChangesOf(an_doc)[i].change # <<>>
          /\ ChangesOf(an_doc)[i].change[1].actions = << <<"delete", "create">> >>

\* Every resource the plan holds, those of called modules included
AllPlannedResources(doc) ==
    LET root == doc.planned_values[1].root_module[1]
    IN  (IF root.resources = <<>> THEN <<>> ELSE root.resources[1])
          \o (IF root.child_modules = <<>> THEN <<>>
              ELSE root.child_modules[1][1].resources)

\* C17 as stated: for the document of a plan with no prior state,
\* resource_count() is the number of planned resources, resources_to_create()
\* returns every resource change with its type, and resources_to_update() and
\* resources_to_delete() are empty.
C17_Original ==
    an_doc0 \in FreshPlanDocs =>
        LET planned == AllPlannedResources(an_doc0)
            created == resources_to_create(an_doc).ret
        IN  /\ resource_count(an_doc).ret = Len(planned)
            /\ Len(created) = Len(planned)
            /\ \A i \in 1..Len(planned) : created[i].type = planned[i].type
            /\ resources_to_update(an_doc).ret = <<>>
            /\ resources_to_delete(an_doc).ret = <<>>
            /\ an_query.op = "resource_count" => an_result = Len(planned)

\* The planned resources of the given type that do not hold every expected
\* value, an attribute that is missing counting as null
Mismatching(doc, resource_type, expected) ==
    { i \in 1..Len(AllPlannedResources(doc)) :
        LET resource == AllPlannedResources(doc)[i]
        IN  /\ resource.type = resource_type
            /\ \E k \in AttrNames :
                  /\ expected[k] # "absent"
                  /\ expected[k] #
                        (IF resource.values = <<>> THEN "null"
                         ELSE PyGet(resource.values[1][k])) }

\* C18 as stated: validate_resource_attributes(type, expected) returns True
\* exactly when no planned resource of that type differs from an expected
\* value.
C18_Original ==
    (an_doc0.planned_values # <<>> /\ an_query.op = "validate_resource_attributes")
       => (an_result <=> Mismatching(an_doc0, an_query.type, an_query.expected) = {})

\* C19: whatever queries have been made, the analyzer's document is the one
\* passed to its constructor, no query would change it, and a query repeated
\* at once returns what it returned before.
C19_DocumentNeverMutated ==
    /\ an_doc = an_doc0
    /\ an_before # <<>> => an_before[1] = an_result
    /\ get_planned_resources(an_doc).plan_json = an_doc0
    /\ get_resource_changes(an_doc).plan_json = an_doc0
    /\ get_outputs(an_doc).plan_json = an_doc0
    /\ resource_count(an_doc).plan_json = an_doc0
    /\ \A verb \in {"create", "update", "delete"} :
          resources_with_action(an_doc, verb).plan_json = an_doc0
    /\ \A t \in ResourceTypes :
          /\ get_resource_by_type(an_doc, t).plan_json = an_doc0
          /\ has_resource_type(an_doc, t).plan_json = an_doc0
          /\ \A expected \in ExpectedAttributes :
                validate_resource_attributes(an_doc, t, expected).plan_json = an_doc0

\* C19 witness: get_resource_changes was called twice in a row on a document
\* without the resource_changes key and returned the empty default both times.
C19_Witness ==
    /\ an_query.op = "get_resource_changes"
    /\ an_before = << <<>> >>
    /\ an_result = <<>>
    /\ an_doc0.resource_changes = <<>>
    /\ an_doc0.planned_values # <<>>

----------------------------------------------------------------------------
(* Several workspace instances, of either class, that share the module       *)
(* directory and the temporary-file area; their calls interleave in any      *)
(* order.                                                                    *)

MaxInstances == 2    \* how many instances there are
MaxSharedDirs == 3   \* most temporary directory names ever in use

Instances == 1..MaxInstances

\* The names tempfile.mkdtemp may pick for the directory the setup call with
\* result r made: any name under which nothing exists, a name used before
\* included
FreeNames(r, fresh_allowed) ==
    {k \in 2..(Len(r.dirs) - 1) : ~r.dirs[k].exists}
        \cup (IF fresh_allowed THEN {Len(r.dirs)} ELSE {})

\* The result r of a setup call, the directory it made standing under name k
MkdtempNamed(r, k) ==
    LET d == Len(r.dirs)
        at(x) == IF x = d THEN k ELSE x
    IN  IF k = d THEN r
        ELSE [r EXCEPT
                !.me = [test_dir |-> at(r.me.test_dir), terraform |-> at(r.me.terraform)],
                !.dirs = [SubSeq(r.dirs, 1, d - 1) EXCEPT ![k] = r.dirs[d]]]

InitShared ==
    /\ SelIdle
    /\ WsIdle
    /\ AnIdle
    /\ ScIdle
    /\ arg_all = FALSE
    /\ arg_test_type = "validation"
    /\ sh_insts \in [Instances -> [cls : {"base", "validation"}, me : {NoInstance}]]
    /\ \E exists \in BOOLEAN : sh_tmp = <<ModuleTree(exists)>>
    /\ sh_actor = <<>>

\* Instance i's call `op` ended as r says
Called(i, op, r) ==
    /\ sh_insts' = [sh_insts EXCEPT ![i].me = r.me]
    /\ sh_tmp' = r.dirs
    /\ sh_actor' = [who |-> i, op |-> op, result |-> r.result]

\* setup_test_workspace on one of the instances
SetupOne ==
    /\ \E i \in Instances :
         \E r \in {IF sh_insts[i].cls = "base"
                    THEN base_setup_test_workspace(sh_insts[i].me, sh_tmp,
                                                   sh_tmp[ModuleDir].exists)
                    ELSE val_setup_test_workspace(sh_insts[i].me, sh_tmp,
                                                  sh_tmp[ModuleDir].exists)} :
           \E k \in FreeNames(r, Len(sh_tmp) - 1 < MaxSharedDirs) :
              Called(i, "setup_test_workspace", MkdtempNamed(r, k))
    /\ UNCHANGED <<selVars, wsVars, anVars, scVars>>

\* create_test_configuration or create_minimal_config on one of the instances
ConfigureOne ==
    /\ \E i \in Instances :
         Called(i, "create_configuration",
                IF sh_insts[i].cls = "base"
                THEN base_create_test_configuration(sh_insts[i].me, sh_tmp)
                ELSE val_create_minimal_config(sh_insts[i].me, sh_tmp))
    /\ UNCHANGED <<selVars, wsVars, anVars, scVars>>

\* cleanup on one of the instances
CleanupOne ==
    /\ \E i \in Instances :
         Called(i, "cleanup", cleanup(sh_insts[i].cls, sh_insts[i].me, sh_tmp))
    /\ UNCHANGED <<selVars, wsVars, anVars, scVars>>

NextShared ==
    \/ SetupOne
    \/ ConfigureOne
    \/ CleanupOne

SpecShared == InitShared /\ [][NextShared]_vars

\* Instance i has a workspace
Owns(i) == sh_insts[i].me.test_dir # 0

\* C21: whatever the interleaving of setup, use and cleanup calls of several
\* instances, every instance that has a workspace has a temporary directory
\* that exists, is not the module directory and is not the workspace of any
\* other instance; and a call made by one instance, cleanup included, leaves
\* every other instance and the directory it owns exactly as they were.
C21_WorkspacesIsolated ==
    /\ [](\A i \in Instances :
            Owns(i) =>
               /\ DirExists(sh_tmp, sh_insts[i].me.test_dir)
               /\ sh_insts[i].me.test_dir # ModuleDir
               /\ \A j \in Instances \ {i} :
                     Owns(j) => sh_insts[j].me.test_dir # sh_insts[i].me.test_dir)
    /\ [][\A j \in Instances :
            (j # sh_actor'.who /\ Owns(j)) =>
               /\ sh_insts'[j] = sh_insts[j]
               /\ sh_tmp'[sh_insts[j].me.test_dir] = sh_tmp[sh_insts[j].me.test_dir]]_vars

\* C21 witness: both instances had a configured workspace, the second under a
\* name that had been used and released before; the first has just cleaned up
\* and the second still has its directory and files.
C21_Witness ==
    /\ sh_actor # <<>>
    /\ sh_actor.op = "cleanup"
    /\ sh_actor.who = 1
    /\ ~Owns(1)
    /\ Owns(2)
    /\ sh_insts[2].me.test_dir = 2
    /\ Len(sh_tmp) > 2
    /\ DirExists(sh_tmp, 2)
    /\ {"module", "versions.tf"} \subseteq sh_tmp[2].files
    /\ \E d \in 3..Len(sh_tmp) : ~sh_tmp[d].exists

----------------------------------------------------------------------------
(* tests/terraform/config.py: the skip conditions *)

UpperCase == <<"A","B","C","D","E","F","G","H","I","J","K","L","M",
               "N","O","P","Q","R","S","T","U","V","W","X","Y","Z">>
LowerCase == <<"a","b","c","d","e","f","g","h","i","j","k","l","m",
               "n","o","p","q","r","s","t","u","v","w","x","y","z">>

\* str.lower()
lower(s) ==
    [i \in 1..Len(s) |->
        IF \E k \in 1..26 : UpperCase[k] = s[i]
        THEN LowerCase[CHOOSE k \in 1..26 : UpperCase[k] = s[i]]
        ELSE s[i]]

s_true  == <<"t","r","u","e">>
s_false == <<"f","a","l","s","e">>

\* The class attributes, computed when the module is imported: env is the
\* value of the environment variable SKIP_TERRAFORM_TESTS (<<>> when unset,
\* <<text>> when set), which_out is what `which terraform` printed
TerraformTestConfig(env, which_out) ==
    [SKIP_TERRAFORM_TESTS |-> lower(Get(env, s_false)) = s_true,
     TERRAFORM_AVAILABLE  |-> Strip(which_out) # <<>>]

\* TerraformTestConfig.should_skip_terraform_tests
should_skip_terraform_tests(cls) ==
    IF cls.SKIP_TERRAFORM_TESTS THEN TRUE
    ELSE IF ~cls.TERRAFORM_AVAILABLE THEN TRUE
    ELSE FALSE

\* A variant that looks at the tool first
get_skip_reason_tool_first(cls) ==
    IF ~cls.TERRAFORM_AVAILABLE THEN "Terraform CLI not available in PATH"
    ELSE IF cls.SKIP_TERRAFORM_TESTS
    THEN "SKIP_TERRAFORM_TESTS environment variable is set"
    ELSE "Unknown reason"

\* TerraformTestConfig.get_skip_reason
get_skip_reason(cls) ==
    IF cls.SKIP_TERRAFORM_TESTS
    THEN "SKIP_TERRAFORM_TESTS environment variable is set"
    ELSE IF ~cls.TERRAFORM_AVAILABLE THEN "Terraform CLI not available in PATH"
    ELSE "Unknown reason"

\* Values the environment variable may have
EnvTexts ==
    { s_true, <<"T","R","U","E">>, <<"T","r","u","e">>, <<"t","R","u","E">>,
      s_false, <<"F","a","l","s","e">>, <<"1">>, <<"0">>, <<"y","e","s">>,
      <<"o","n">>, <<>>, <<"t","r","u","e"," ">>, <<"t","r","u","e","1">> }

EnvSettings == {<<>>} \cup {<<v>> : v \in EnvTexts}

\* What `which terraform` may print
WhichOutputs ==
    { <<>>, <<NL>>, <<" ", NL>>,
      <<"/","b","i","n","/","t","e","r","r","a","f","o","r","m", NL>> }

ConfigInputs == {[env |-> e, which_out |-> w] : e \in EnvSettings, w \in WhichOutputs}

----------------------------------------------------------------------------
(* tests/terraform/base_validation.py: _generate_tfvars.  A Python value is *)
(* [t, s, b, n, elems, pairs]: its type, and its text, truth value, number,  *)
(* elements (of a list) or key/value pairs (of a dict); a value inside a     *)
(* list or dict is [t, s, b, n].                                             *)

MaxVars == 2     \* most entries of the variables mapping

QUOTE == "\""
BACKSLASH == "\\"

Scalar(t, s, b, n) == [t |-> t, s |-> s, b |-> b, n |-> n]

Value(t, s, b, n, elems, pairs) ==
    [t |-> t, s |-> s, b |-> b, n |-> n, elems |-> elems, pairs |-> pairs]

\* isinstance(value, cls): a bool is an int as well
isinstance(value, cls) ==
    \/ value.t = cls
    \/ (cls = "int" /\ value.t = "bool")

Digits == <<"0","1","2","3","4","5","6","7","8","9">>

\* str(n) of an int
RECURSIVE NatStr(_)
NatStr(n) == IF n < 10 THEN <<Digits[n + 1]>>
             ELSE NatStr(n \div 10) \o <<Digits[(n % 10) + 1]>>

IntStr(n) == IF n < 0 THEN <<"-">> \o NatStr(0 - n) ELSE NatStr(n)

\* str(value), as an f-string formats it
py_str(value) ==
    IF value.t = "str" THEN value.s
    ELSE IF value.t = "bool"
    THEN (IF value.b THEN <<"T","r","u","e">> ELSE <<"F","a","l","s","e">>)
    ELSE IF value.t = "int" THEN IntStr(value.n)
    ELSE <<"N","o","n","e">>

\* json.dumps of a string: quoted, with quote and backslash escaped
RECURSIVE JsonEscape(_)
JsonEscape(s) ==
    IF s = <<>> THEN <<>>
    ELSE (IF Head(s) \in {QUOTE, BACKSLASH} THEN <<BACKSLASH, Head(s)>> ELSE <<Head(s)>>)
            \o JsonEscape(Tail(s))

JsonScalar(v) ==
    IF v.t = "str" THEN <<QUOTE>> \o JsonEscape(v.s) \o <<QUOTE>>
    ELSE IF v.t = "bool" THEN (IF v.b THEN s_true ELSE s_false)
    ELSE IF v.t = "int" THEN IntStr(v.n)
    ELSE <<"n","u","l","l">>

\* ", ".join(items)
RECURSIVE JoinComma(_)
JoinComma(items) ==
    IF items = <<>> THEN <<>>
    ELSE IF Len(items) = 1 THEN items[1]
    ELSE items[1] \o <<",", " ">> \o JoinComma(Tail(items))

\* json.dumps(value) of a list or a dict, with the default separators
json_dumps(value) ==
    IF value.t = "list"
    THEN <<"[">> \o JoinComma([i \in 1..Len(value.elems) |-> JsonScalar(value.elems[i])])
                 \o <<"]">>
    ELSE <<"{">> \o JoinComma([i \in 1..Len(value.pairs) |->
                                 <<QUOTE>> \o JsonEscape(value.pairs[i].k) \o <<QUOTE, ":", " ">>
                                    \o JsonScalar(value.pairs[i].v)])
                 \o <<"}">>

\* f"{key} = ..."
Assign(key, text) == key \o <<" ", "=", " ">> \o text

\* A variant without the branch for booleans
generate_tfvars_no_bool_branch(variables) ==
    Join([i \in 1..Len(variables) |->
            LET key == variables[i].key
                value == variables[i].value
            IN  IF isinstance(value, "str")
                THEN Assign(key, <<QUOTE>> \o value.s \o <<QUOTE>>)
                ELSE IF isinstance(value, "dict") \/ isinstance(value, "list")
                THEN Assign(key, json_dumps(value))
                ELSE Assign(key, py_str(value))], NL) \o <<NL>>

\* TerraformValidationTest._generate_tfvars: `variables` is the mapping as the
\* sequence of its items, in the mapping's order
generate_tfvars(variables) ==
    Join([i \in 1..Len(variables) |->
            LET key == variables[i].key
                value == variables[i].value
            IN  IF isinstance(value, "str")
                THEN Assign(key, <<QUOTE>> \o value.s \o <<QUOTE>>)
                ELSE IF isinstance(value, "bool")
                THEN Assign(key, lower(py_str(value)))
                ELSE IF isinstance(value, "dict") \/ isinstance(value, "list")
                THEN Assign(key, json_dumps(value))
                ELSE Assign(key, py_str(value))], NL) \o <<NL>>

\* The values a mapping may hold
VarValues ==
    { Value("str", s, FALSE, 0, <<>>, <<>>) : s \in {<<>>, <<"a">>, <<"a", QUOTE>>} }
    \cup { Value("bool", <<>>, b, 0, <<>>, <<>>) : b \in BOOLEAN }
    \cup { Value("int", <<>>, FALSE, n, <<>>, <<>>) : n \in {0, 42, 0 - 7} }
    \cup { Value("none", <<>>, FALSE, 0, <<>>, <<>>) }
    \cup { Value("list", <<>>, FALSE, 0, e, <<>>) :
             e \in { <<>>,
                     <<Scalar("str", <<"a", QUOTE>>, FALSE, 0)>>,
                     <<Scalar("bool", <<>>, FALSE, 0), Scalar("int", <<>>, FALSE, 10)>> } }
    \cup { Value("dict", <<>>, FALSE, 0, <<>>, p) :
             p \in { <<>>, <<[k |-> <<"k">>, v |-> Scalar("bool", <<>>, TRUE, 0)]>> } }

VarKeys == <<<<"a">>, <<"b">>, <<"c">>>>

\* The mappings of at most MaxVars entries, their keys distinct
RECURSIVE MappingsOf(_)
MappingsOf(n) ==
    IF n = 0 THEN {<<>>}
    ELSE MappingsOf(n - 1)
         \cup { Append(m, [key |-> k, value |-> v]) :
                  m \in {x \in MappingsOf(n - 1) : Len(x) = n - 1},
                  k \in {VarKeys[j] : j \in 1..Len(VarKeys)}, v \in VarValues }

Mappings ==
    { m \in MappingsOf(MaxVars) :
        \A i \in 1..Len(m), j \in 1..Len(m) : i # j => m[i].key # m[j].key }

----------------------------------------------------------------------------
(* scripts/validate.py.  A TerraformValidator is [errors, warnings]; a check *)
(* gives the validator it leaves, what it returned and the commands it ran.  *)

Checked(validator, ret, ran) == [validator |-> validator, ret |-> ret, ran |-> ran]

\* self.warnings.append / extend: a warning is <<what, about which file>>
Warn(validator, w) == [validator EXCEPT !.warnings = validator.warnings \o w]

\* self.errors.append
Fail(validator, e) == [validator EXCEPT !.errors = Append(validator.errors, e)]

\* The names module_path.glob("*.tf") matches
TfFiles == {"main.tf", "variables.tf", "outputs.tf"}

\* TerraformValidator._has_terraform_files
has_terraform_files(files) == files \cap TfFiles # {}

\* TerraformValidator._validate_terraform_syntax: terraform init, then
\* terraform validate
validate_terraform_syntax(validator, tool) ==
    IF tool.terraform = "missing"
    THEN Checked(Fail(validator, "Terraform command not found"), FALSE, <<>>)
    ELSE IF tool.init # 0
    THEN Checked(Fail(validator, "Terraform init failed"), FALSE, <<"init">>)
    ELSE IF tool.validate = 0
    THEN Checked(validator, TRUE, <<"init", "validate">>)
    ELSE Checked(Fail(validator, "Terraform validation failed"), FALSE,
                 <<"init", "validate">>)

\* TerraformValidator._check_terraform_format: terraform fmt -check
check_terraform_format(validator, tool) ==
    IF tool.terraform = "missing"
    THEN Checked(Warn(validator, <<<<"Could not check Terraform formatting", "">>>>),
                 FALSE, <<>>)
    ELSE IF tool.fmt = 0
    THEN Checked(validator, TRUE, <<"fmt">>)
    ELSE Checked(Warn(validator, <<<<"Terraform files need formatting", "">>>>),
                 FALSE, <<"fmt">>)

\* TerraformValidator._run_security_scan: checkov
run_security_scan(validator, tool) ==
    IF tool.checkov = "missing"
    THEN Checked(Warn(validator, <<<<"Checkov not found", "">>>>), FALSE, <<>>)
    ELSE IF tool.checkov = "passed"
    THEN Checked(validator, TRUE, <<"checkov">>)
    ELSE IF tool.checkov = "findings"
    THEN Checked(Warn(validator, <<<<"Security scan found issues", "">>>>),
                 FALSE, <<"checkov">>)
    ELSE Checked(Fail(validator, "Security scan error"), FALSE, <<"checkov">>)

\* The files _check_documentation looks for, in the order it does
DocumentationFiles == <<"README.md", "variables.tf", "outputs.tf">>

\* issues: one entry for each of `names`, in order, that is not in `files`
RECURSIVE Issues(_, _)
Issues(names, files) ==
    IF names = <<>> THEN <<>>
    ELSE (IF Head(names) \in files THEN <<>> ELSE <<<<"Missing", Head(names)>>>>)
            \o Issues(Tail(names), files)

\* A variant that adds one warning, however many files are missing
check_documentation_one_warning(validator, files) ==
    LET issues == Issues(DocumentationFiles, files)
    IN  IF issues # <<>>
        THEN Checked(Warn(validator, <<<<"Documentation issues", "">>>>), FALSE, <<>>)
        ELSE Checked(validator, TRUE, <<>>)

\* TerraformValidator._check_documentation: `files` are the names that exist
\* in the module directory
check_documentation(validator, files) ==
    LET issues == Issues(DocumentationFiles, files)
    IN  IF issues # <<>>
        THEN Checked(Warn(validator, issues), FALSE, <<>>)
        ELSE Checked(validator, TRUE, <<>>)

\* TerraformValidator.validate_module
validate_module(validator, files, tool, run_security) ==
    IF ~has_terraform_files(files)
    THEN Checked(Fail(validator, "No Terraform files found"), FALSE, <<>>)
    ELSE
      LET syntax == validate_terraform_syntax(validator, tool)
          format == check_terraform_format(syntax.validator, tool)
          scan   == IF run_security THEN run_security_scan(format.validator, tool)
                    ELSE Checked(format.validator, TRUE, <<>>)
          docs   == check_documentation(scan.validator, files)
      IN  Checked(docs.validator,
                  syntax.ret /\ format.ret /\ scan.ret /\ docs.ret,
                  syntax.ran \o format.ran \o scan.ran \o docs.ran)

\* TerraformValidator(base_path)
NewValidator == [errors |-> <<>>, warnings |-> <<>>]

\* main(module, validate_all, security, format): the exit code, the validator
\* and the commands run.  world.found is how many modules --all finds; the
\* module validated has the files and meets the tools of `world`.
validate_main(args, world) ==
    LET modules_to_validate ==
            IF args.module THEN 1
            ELSE IF args.validate_all THEN world.found ELSE 0
    IN  IF ~args.module /\ ~args.validate_all
        THEN [exit |-> 1, validator |-> NewValidator, ran |-> <<>>]
        ELSE IF modules_to_validate = 0
        THEN [exit |-> 0, validator |-> NewValidator, ran |-> <<>>]
        ELSE LET r == validate_module(NewValidator, world.files, world.tool, args.security)
             IN  [exit |-> IF r.ret THEN 0 ELSE 1, validator |-> r.validator, ran |-> r.ran]

\* The command lines of validate.py
ValidateArgs ==
    [module : BOOLEAN, validate_all : BOOLEAN, security : BOOLEAN, format : BOOLEAN]

\* What the module directory holds
ModuleFileSets == SUBSET {"main.tf", "README.md", "variables.tf", "outputs.tf"}

\* How the external tools answer
ValidateTools ==
    { [terraform |-> "missing", init |-> 0, validate |-> 0, fmt |-> 0, checkov |-> c] :
        c \in {"passed", "missing"} }
    \cup [terraform : {"present"}, init : {0, 1}, validate : {0, 1}, fmt : {0, 3},
          checkov : {"passed", "findings", "error", "missing"}]

DocumentationInputs ==
    { [validator |-> [errors |-> <<>>, warnings |-> w], files |-> f] :
        w \in {<<>>, <<<<"Terraform files need formatting", "">>>>},
        f \in ModuleFileSets }

ValidateInputs ==
    { [args |-> a, world |-> [found |-> n, files |-> f, tool |-> t]] :
        a \in ValidateArgs, n \in {0, 1},
        f \in {{"main.tf", "README.md", "variables.tf", "outputs.tf"}, {"main.tf"}, {"README.md"}},
        t \in ValidateTools }

----------------------------------------------------------------------------
(* scripts/health_check.py.  A ToolCheck is [name, status]; names are texts, *)
(* since print_summary tests them with `in`.                                 *)

n_Python    == <<"P","y","t","h","o","n">>
n_Terraform == <<"T","e","r","r","a","f","o","r","m">>
n_Azure_CLI == <<"A","z","u","r","e"," ","C","L","I">>
n_Git       == <<"G","i","t">>
n_Container_Runtime ==
    <<"C","o","n","t","a","i","n","e","r"," ","R","u","n","t","i","m","e">>
n_Terraform_Config == n_Terraform \o <<" ","C","o","n","f","i","g">>

ToolCheck(name, status) == [name |-> name, status |-> status]

\* HealthChecker.run_all_checks: the results, in the order they are gathered;
\* `world` says how each check ends
run_all_checks(world) ==
    << ToolCheck(n_Python, world.python),
       ToolCheck(n_Terraform, world.terraform),
       ToolCheck(n_Azure_CLI, world.az),
       ToolCheck(n_Git, world.git),
       ToolCheck(IF world.docker = "AVAILABLE"
                 THEN n_Container_Runtime \o <<" ","(","d","o","c","k","e","r",")">>
                 ELSE n_Container_Runtime, world.docker),
       ToolCheck(n_Terraform_Config, world.config) >>

required_tools == <<n_Python, n_Terraform, n_Azure_CLI, n_Git>>

\* HealthChecker.print_summary: the verdict it prints.  A result counts as
\* critical when a required name occurs in its name.
print_summary(results) ==
    LET critical(r) ==
            /\ r.status \in {"MISSING", "ERROR"}
            /\ \E i \in 1..Len(required_tools) : Contains(r.name, required_tools[i])
        critical_issues == SelectSeq(results, critical)
    IN  IF critical_issues = <<>> THEN "SYSTEM READY" ELSE "SETUP REQUIRED"

\* main of health_check.py: the verdict printed and the exit code.  A result
\* counts as critical when its name is a required name.
health_main(world) ==
    LET results == run_all_checks(world)
        critical(r) ==
            /\ r.status \in {"MISSING", "ERROR"}
            /\ \E i \in 1..Len(required_tools) : r.name = required_tools[i]
        critical_issues == SelectSeq(results, critical)
    IN  [verdict |-> print_summary(results),
         exit |-> IF critical_issues # <<>> THEN 1 ELSE 0]

\* How the checks may end
HealthWorlds ==
    [python : {"AVAILABLE", "VERSION_ISSUE", "ERROR"},
     terraform : {"AVAILABLE", "MISSING", "ERROR"},
     az : {"AVAILABLE", "MISSING", "ERROR"},
     git : {"AVAILABLE", "MISSING", "ERROR"},
     docker : {"AVAILABLE", "MISSING"},
     config : {"AVAILABLE", "MISSING"}]

----------------------------------------------------------------------------
(* One call of a helper, or one run of a script, on any input *)

InitScripts ==
    /\ SelIdle
    /\ WsIdle
    /\ AnIdle
    /\ ShIdle
    /\ arg_all = FALSE
    /\ arg_test_type = "validation"
    /\ sc_out = <<>>
    /\ \/ sc_prog = "config" /\ sc_in \in ConfigInputs
       \/ sc_prog = "tfvars" /\ sc_in \in Mappings
       \/ sc_prog = "documentation" /\ sc_in \in DocumentationInputs
       \/ sc_prog = "validate" /\ sc_in \in ValidateInputs
       \/ sc_prog = "health" /\ sc_in \in HealthWorlds

\* TerraformTestConfig.should_skip_terraform_tests() and get_skip_reason()
ShouldSkipTerraformTests ==
    /\ sc_prog = "config"
    /\ sc_out = <<>>
    /\ LET cls == TerraformTestConfig(sc_in.env, sc_in.which_out)
       IN  sc_out' = <<[skip |-> should_skip_terraform_tests(cls),
                        reason |-> get_skip_reason(cls)]>>
    /\ UNCHANGED <<selVars, wsVars, anVars, shVars, sc_prog, sc_in>>

\* self._generate_tfvars(variables)
GenerateTfvars ==
    /\ sc_prog = "tfvars"
    /\ sc_out = <<>>
    /\ sc_out' = <<generate_tfvars(sc_in)>>
    /\ UNCHANGED <<selVars, wsVars, anVars, shVars, sc_prog, sc_in>>

\* validator._check_documentation(module_path)
CheckDocumentation ==
    /\ sc_prog = "documentation"
    /\ sc_out = <<>>
    /\ sc_out' = <<check_documentation(sc_in.validator, sc_in.files)>>
    /\ UNCHANGED <<selVars, wsVars, anVars, shVars, sc_prog, sc_in>>

\* python scripts/validate.py ...
RunValidate ==
    /\ sc_prog = "validate"
    /\ sc_out = <<>>
    /\ sc_out' = <<validate_main(sc_in.args, sc_in.world)>>
    /\ UNCHANGED <<selVars, wsVars, anVars, shVars, sc_prog, sc_in>>

\* python scripts/health_check.py
RunHealthCheck ==
    /\ sc_prog = "health"
    /\ sc_out = <<>>
    /\ sc_out' = <<health_main(sc_in)>>
    /\ UNCHANGED <<selVars, wsVars, anVars, shVars, sc_prog, sc_in>>

NextScripts ==
    \/ ShouldSkipTerraformTests
    \/ GenerateTfvars
    \/ CheckDocumentation
    \/ RunValidate
    \/ RunHealthCheck

SpecScripts == InitScripts /\ [][NextScripts]_vars

----------------------------------------------------------------------------
(* Claims about the helpers and scripts *)

\* The call or run of `prog` has returned
Returned(prog) == sc_prog = prog /\ sc_out # <<>>

\* The text is the word true, in any mix of upper and lower case
IsTrueWord(s) ==
    /\ Len(s) = 4
    /\ s[1] \in {"t", "T"}
    /\ s[2] \in {"r", "R"}
    /\ s[3] \in {"u", "U"}
    /\ s[4] \in {"e", "E"}

\* C22: should_skip_terraform_tests returns True exactly when the
\* SKIP_TERRAFORM_TESTS flag is true (the variable is set to the word true in
\* any letter case) or `which terraform` printed nothing but white space;
\* when it returns True, get_skip_reason names the environment variable if the
\* flag is true, and the missing terraform CLI otherwise.
C22_SkipIffFlagOrNoTool ==
    Returned("config") =>
        LET flag == sc_in.env # <<>> /\ IsTrueWord(sc_in.env[1])
            no_tool == \A i \in 1..Len(sc_in.which_out) : sc_in.which_out[i] \in Whitespace
            r == sc_out[1]
        IN  /\ r.skip <=> (flag \/ no_tool)
            /\ (r.skip /\ flag) =>
                  r.reason = "SKIP_TERRAFORM_TESTS environment variable is set"
            /\ (r.skip /\ ~flag) => r.reason = "Terraform CLI not available in PATH"

\* C22 witness: the variable is set to TRUE and terraform is not installed;
\* the tests are skipped and the reason given is the environment variable.
C22_Witness ==
    /\ Returned("config")
    /\ sc_in.env = <<<<"T","R","U","E">>>>
    /\ sc_in.which_out = <<>>
    /\ sc_out[1].skip
    /\ sc_out[1].reason = "SKIP_TERRAFORM_TESTS environment variable is set"

\* The text the claim gives for a value of each type
TfvarsText(value) ==
    IF value.t = "str" THEN <<QUOTE>> \o value.s \o <<QUOTE>>
    ELSE IF value.t = "bool" THEN (IF value.b THEN s_true ELSE s_false)
    ELSE IF value.t \in {"list", "dict"} THEN json_dumps(value)
    ELSE IntStr(value.n)

\* C23: _generate_tfvars writes, for each entry of the mapping and in the
\* mapping's order, one line `key = text` ended by a newline, where text is
\* the string in double quotes, true or false in lower case for a boolean, the
\* JSON encoding for a list or dict, and the bare digits for any other
\* number; the output holds nothing else.
C23_TypeDirectedLines ==
    Returned("tfvars") =>
        LET out == sc_out[1]
            rows == Split(out, NL)
        IN  /\ out # <<>>
            /\ out[Len(out)] = NL
            /\ sc_in # <<>> =>
                  /\ Len(rows) = Len(sc_in) + 1
                  /\ rows[Len(rows)] = <<>>
                  /\ \A i \in 1..Len(sc_in) :
                        /\ StartsWith(rows[i], sc_in[i].key \o <<" ", "=", " ">>)
                        /\ sc_in[i].value.t # "none" =>
                              rows[i] = sc_in[i].key \o <<" ", "=", " ">>
                                           \o TfvarsText(sc_in[i].value)
            /\ sc_in = <<>> => out = <<NL>>

\* C23 witness: the mapping {"b": True, "a": {"k": True}} gave the two lines
\* `b = true` and `a = {"k": true}`, in that order.
C23_Witness ==
    /\ Returned("tfvars")
    /\ Len(sc_in) = 2
    /\ sc_in[1].value.t = "bool"
    /\ sc_in[2].value.t = "dict"
    /\ sc_out[1] = <<"b"," ","="," ","t","r","u","e", NL,
                     "a"," ","="," ","{", QUOTE, "k", QUOTE, ":", " ",
                     "t","r","u","e","}", NL>>

\* C24: _check_documentation returns True exactly when README.md,
\* variables.tf and outputs.tf all exist in the module directory; on True the
\* warnings are as they were, on False exactly one warning for each missing
\* file has been added after them, and no error is added either way.
C24_DocumentationIffAllThree ==
    Returned("documentation") =>
        LET r == sc_out[1]
            before == sc_in.validator.warnings
            after == r.validator.warnings
            missing == {f \in {"README.md", "variables.tf", "outputs.tf"} : f \notin sc_in.files}
            added == (Len(before) + 1)..Len(after)
        IN  /\ r.ret <=> missing = {}
            /\ r.validator.errors = sc_in.validator.errors
            /\ Len(after) >= Len(before)
            /\ SubSeq(after, 1, Len(before)) = before
            /\ r.ret => after = before
            /\ ~r.ret =>
                  /\ Len(after) = Len(before) + Cardinality(missing)
                  /\ \A f \in missing :
                        Cardinality({i \in added : after[i] = <<"Missing", f>>}) = 1

\* C24 witness: only README.md of the three exists, a warning was there
\* before, and two warnings were added.
C24_Witness ==
    /\ Returned("documentation")
    /\ sc_in.files = {"main.tf", "README.md"}
    /\ Len(sc_in.validator.warnings) = 1
    /\ ~sc_out[1].ret
    /\ Len(sc_out[1].validator.warnings) = 3

\* A module whose only defect is that terraform fmt -check finds unformatted
\* files was validated
OnlyUnformatted ==
    /\ sc_in.args.module \/ (sc_in.args.validate_all /\ sc_in.world.found > 0)
    /\ sc_in.world.files = {"main.tf", "README.md", "variables.tf", "outputs.tf"}
    /\ sc_in.world.tool.terraform = "present"
    /\ sc_in.world.tool.init = 0
    /\ sc_in.world.tool.validate = 0
    /\ sc_in.world.tool.fmt # 0
    /\ sc_in.world.tool.checkov = "passed"

\* C25 as stated: run with --no-format, validate.py does not run the
\* formatting check, and a module whose only defect is unformatted files
\* passes and the run exits with code 0.
C25_Original ==
    (Returned("validate") /\ ~sc_in.args.format) =>
        /\ "fmt" \notin Range(sc_out[1].ran)
        /\ OnlyUnformatted => sc_out[1].exit = 0

\* C30 as stated: the summary prints SETUP REQUIRED exactly when the run exits
\* with code 1, and reports the system ready exactly when it exits with code 0.
C30_Original ==
    Returned("health") =>
        /\ sc_out[1].verdict = "SETUP REQUIRED" <=> sc_out[1].exit = 1
        /\ sc_out[1].verdict = "SYSTEM READY" <=> sc_out[1].exit = 0

====
